---------------------------- MODULE Spec2Model ----------------------------
(***************************************************************************)
(* A model of the CardOS v5 driver (src/libopensc/card-cardos5.c): the     *)
(* TLV writers, the ARL codec, the FCP builder and parser, the EC          *)
(* signature post-processor and the driver facade.                         *)
(*                                                                         *)
(* Bytes are the integers 0..255, buffers are sequences of bytes.          *)
(* Three specifications share the variables:                               *)
(*   Spec     the driver facade of one card (init, finish,                 *)
(*            set_security_env, compute_signature, pin_cmd, select_file);  *)
(*   SpecArl  create_file / parse_arl over bounded files and payloads;     *)
(*   SpecSig  the EC signature post-processor over bounded coordinates.    *)
(***************************************************************************)
EXTENDS Integers, Sequences, FiniteSets, TLC

VARIABLES
    card_type,      \* card->type, fixed for a mounted card
    drv_data,       \* card->drv_data: "NULL" or "ALLOCATED"
    cse_algorithm,  \* priv->cse_algorithm (meaningful while drv_data is allocated)
    pin_req,        \* the caller-owned struct sc_pin_cmd_data: [live, pin_reference]
    op,             \* the driver operation called last
    args,           \* the arguments of that call
    ret,            \* its return code
    retlen,         \* the non-negative int it returned on success (a byte count)
    apdus,          \* the APDUs that call handed to sc_transmit_apdu, in order
    out,            \* the caller's output buffer after the call
    oob,            \* bytes the call wrote past the capacity of a buffer
    file_out,       \* the file descriptor the call produced or decorated
    delegated       \* what the call passed to the generic ISO-7816 pin_cmd

vars == << card_type, drv_data, cse_algorithm, pin_req, op, args, ret, retlen,
           apdus, out, oob, file_out, delegated >>

cardVars == << card_type, drv_data, cse_algorithm >>

-----------------------------------------------------------------------------
(* Integer widths and limits of the build.                                  *)

UINT8_MAX == 255
INT8_MAX == 127
UINT16_MAX == 65535
INT_MAX == 2147483647
\* Unsigned 32-bit values are written as the int with the same 32 bits, so
\* 0xFFFFFFFF is -1.
\* -1U: the "no mapped operation" and "unset algorithm" sentinel
MINUS_1U == -1

\* x > y for two unsigned ints
UnsignedGreater(x, y) == IF (x < 0) = (y < 0) THEN x > y ELSE x < 0

\* (size_t)(a - b) < c for size_t a, b, c, all three at most INT_MAX here.
\* When a < b the difference wraps to 2^64 - (b - a), which is at least
\* 2^64 - 2^31 and so above every such c.
SizeTDiffLess(a, b, c) == IF a >= b THEN a - b < c ELSE FALSE

Byte == 0 .. 255

\* (uint8_t)x
U8(x) == x % 256

\* x & 0x80 != 0
BitSet80(x) == (x \div 128) % 2 = 1

-----------------------------------------------------------------------------
(* Values of card-cardos5.h, opensc.h and errors.h.                         *)

SC_CARD_TYPE_CARDOS_V5_0 == "SC_CARD_TYPE_CARDOS_V5_0"
SC_CARD_TYPE_CARDOS_V5_3 == "SC_CARD_TYPE_CARDOS_V5_3"

SC_ALGORITHM_RSA == 0
SC_ALGORITHM_DSA == 1
SC_ALGORITHM_EC == 2

\* 0xFFFFFFFF
SC_AC_KEY_REF_NONE == -1

BACKTRACK_PIN == 128
BACKTRACK_MASK == 127

ARL_ACCESS_MODE_BYTE_TAG == 128
ARL_ACCESS_MODE_BYTE_LEN == 1
ARL_COMMAND_TAG == 132
ARL_USER_AUTH_TAG == 164
ARL_USER_AUTH_LEN == 6
ARL_ALWAYS_TAG == 144
ARL_ALWAYS_LEN == 0
ARL_NEVER_TAG == 151
ARL_NEVER_LEN == 0
ARL_DUMMY_TAG == 129
ARL_DUMMY_LEN == 0
CRT_TAG_PINREF == 131
CRT_LEN_PINREF == 1
CRT_TAG_KUQ == 149
CRT_LEN_KUQ == 1
CRT_TAG_KEYREF == 132
KUQ_USER_AUTH == 8
KUQ_DECRYPT == 64

FCP_TAG_START == 98
FCP_TAG_DESCRIPTOR == 130
FCP_TAG_DF_SIZE == 129
FCP_TAG_EF_SIZE == 129
FCP_TAG_DF_NAME == 132
FCP_TAG_EF_SFID == 136
FCP_TAG_FILEID == 131
FCP_TAG_ARL == 171
FCP_TYPE_DF == 56
FCP_TYPE_BINARY_EF == 1
ISO7816_TAG_FCI == 111
SC_MAX_APDU_BUFFER_SIZE == 261


SC_SUCCESS == "SC_SUCCESS"
SC_ERROR_INVALID_ARGUMENTS == "SC_ERROR_INVALID_ARGUMENTS"
SC_ERROR_BUFFER_TOO_SMALL == "SC_ERROR_BUFFER_TOO_SMALL"
SC_ERROR_OUT_OF_MEMORY == "SC_ERROR_OUT_OF_MEMORY"
SC_ERROR_WRONG_LENGTH == "SC_ERROR_WRONG_LENGTH"
SC_ERROR_NO_CARD_SUPPORT == "SC_ERROR_NO_CARD_SUPPORT"
SC_ERROR_UNKNOWN_DATA_RECEIVED == "SC_ERROR_UNKNOWN_DATA_RECEIVED"
SC_ERROR_NOT_SUPPORTED == "SC_ERROR_NOT_SUPPORTED"
SC_ERROR_INCORRECT_PARAMETERS == "SC_ERROR_INCORRECT_PARAMETERS"
\* what sc_transmit_apdu returns when the reader fails
SC_ERROR_TRANSMIT_FAILED == "SC_ERROR_TRANSMIT_FAILED"
\* what sc_check_sw returns for a status word other than 90 00
SC_ERROR_CARD_CMD_FAILED == "SC_ERROR_CARD_CMD_FAILED"
\* what the generic ISO-7816 pin_cmd returns for a wrong PIN
SC_ERROR_PIN_CODE_INCORRECT == "SC_ERROR_PIN_CODE_INCORRECT"

-----------------------------------------------------------------------------
(* Sequences of bytes.                                                      *)

\* n copies of byte b
Fill(b, n) == [ i \in 1 .. n |-> b ]

\* the first n elements of s (all of s when it is shorter)
Take(s, n) == SubSeq(s, 1, IF n < Len(s) THEN n ELSE Len(s))

\* s without its first n elements
Drop(s, n) == SubSeq(s, n + 1, Len(s))

-----------------------------------------------------------------------------
(* TLV writers over a cursor buffer (buf_t).  data holds the bytes written  *)
(* inside the capacity, oob counts the bytes written past it.               *)

buf_init(size) ==
    [ data |-> << >>, size |-> size, bytes_used |-> 0, oob |-> 0 ]

\* bytes stored through buf->ptr: those that fit go to data, the others are
\* written past the end of the array behind the buffer
BufStore(buf, bytes) ==
    LET room == IF buf.size > Len(buf.data) THEN buf.size - Len(buf.data) ELSE 0
        fit  == Take(bytes, room)
    IN  [ buf EXCEPT !.data = @ \o fit,
                     !.oob = @ + (Len(bytes) - Len(fit)) ]

\* sc_asn1_put_tag of libopensc (asn1.c): tag, one length byte, content
sc_asn1_put_tag(tag, content, outlen) ==
    IF Len(content) < 256 /\ outlen >= Len(content) + 2
    THEN SC_SUCCESS
    ELSE SC_ERROR_INVALID_ARGUMENTS

asn1_put_tag(tag, tag_content, buf) ==
    IF sc_asn1_put_tag(tag, tag_content, buf.size - buf.bytes_used) = SC_SUCCESS
    THEN [ r |-> 0,
           buf |-> [ BufStore(buf, << tag, Len(tag_content) >> \o tag_content)
                       EXCEPT !.bytes_used = @ + Len(tag_content) + 2 ] ]
    ELSE [ r |-> -1, buf |-> buf ]

asn1_put_tag0(tag, buf) == asn1_put_tag(tag, << >>, buf)

asn1_put_tag1(tag, tag_value, buf) == asn1_put_tag(tag, << tag_value >>, buf)

\* the capacity guard of bertlv_put_tag before the memcpy (line 200):
\* TRUE when the call gives up
BertlvNoRoom(bytes_used, size, length) ==
    SizeTDiffLess(bytes_used, size, length)

bertlv_put_tag(tag, data, buf) ==
    LET length == Len(data)
        adv(b, bytes) == [ BufStore(b, bytes) EXCEPT !.bytes_used = @ + Len(bytes) ]
        b1 == adv(buf, << tag >>)
        fail(b) == [ r |-> -1, buf |-> b ]
        body(b) == IF BertlvNoRoom(b.bytes_used, b.size, length)
                   THEN fail(b)
                   ELSE [ r |-> 0, buf |-> adv(b, data) ]
    IN  IF length > UINT16_MAX \/ buf.bytes_used = buf.size
        THEN fail(buf)
        ELSE IF length < 128
             THEN IF b1.bytes_used = b1.size
                  THEN fail(b1)
                  ELSE body(adv(b1, << U8(length) >>))
             ELSE IF length < 255
                  THEN IF b1.size - b1.bytes_used < 2
                       THEN fail(b1)
                       ELSE body(adv(b1, << 129, U8(length) >>))
                  ELSE IF b1.size - b1.bytes_used < 3
                       THEN fail(b1)
                       ELSE body(adv(b1, << 130, U8(length \div 256),
                                             length % 256 >>))

-----------------------------------------------------------------------------
(* Signature post-processor.                                                *)

\* signature is the read cursor over the raw copy: [bytes, size, bytes_used]
extract_coordinate(type, raw_len, signature) ==
    IF signature.size - signature.bytes_used < raw_len \/ raw_len >= INT8_MAX
    THEN [ r |-> SC_ERROR_BUFFER_TOO_SMALL, encoded |-> << >>,
           signature |-> signature ]
    ELSE LET ptr0 == signature.bytes[signature.bytes_used + 1]
             raw  == SubSeq(signature.bytes, signature.bytes_used + 1,
                            signature.bytes_used + raw_len)
             enc  == IF BitSet80(ptr0)
                     THEN << 2, U8(U8(raw_len) + 1), 0 >> \o raw
                     ELSE << 2, U8(raw_len) >> \o raw
             s1   == [ signature EXCEPT !.bytes_used = @ + raw_len ]
         IN  IF type = SC_CARD_TYPE_CARDOS_V5_0
             THEN IF s1.size - s1.bytes_used < 2
                  THEN [ r |-> SC_ERROR_BUFFER_TOO_SMALL, encoded |-> enc,
                         signature |-> s1 ]
                  ELSE [ r |-> SC_SUCCESS, encoded |-> enc,
                         signature |-> [ s1 EXCEPT !.bytes_used = @ + 2 ] ]
             ELSE [ r |-> SC_SUCCESS, encoded |-> enc, signature |-> s1 ]

get_point(X, Y, encoded_sig) ==
    LET point == X \o Y
        w == bertlv_put_tag(48, point, encoded_sig)
    IN  IF Len(point) > UINT16_MAX
        THEN [ r |-> SC_ERROR_INVALID_ARGUMENTS, buf |-> encoded_sig ]
        ELSE IF w.r # 0
             THEN [ r |-> SC_ERROR_BUFFER_TOO_SMALL, buf |-> w.buf ]
             ELSE [ r |-> SC_SUCCESS, buf |-> w.buf ]

\* sig is the whole out buffer (sigbufsiz bytes), its first siglen bytes the
\* card's response.  The result: return code r, byte count n, the out buffer
\* and the bytes written past it.
encode_ec_sig(type, sig, siglen, sigbufsiz) ==
    LET bad(code, buffer) == [ r |-> code, n |-> 0, out |-> buffer, oob |-> 0 ]
        zeroed == Fill(0, sigbufsiz)
        coordinate_raw_len ==
            IF type = SC_CARD_TYPE_CARDOS_V5_0 THEN (siglen - 4) \div 2
            ELSE siglen \div 2
        raw_sig == [ bytes |-> Take(sig, siglen), size |-> siglen,
                     bytes_used |-> 0 ]
        ex == extract_coordinate(type, coordinate_raw_len, raw_sig)
        ey == extract_coordinate(type, coordinate_raw_len, ex.signature)
        gp == get_point(ex.encoded, ey.encoded, buf_init(sigbufsiz))
        written == gp.buf.data \o Fill(0, sigbufsiz - Len(gp.buf.data))
    IN  IF siglen < 4 \/ siglen > sigbufsiz \/ siglen % 2 # 0
        THEN bad(SC_ERROR_INVALID_ARGUMENTS, sig)
        ELSE IF type \notin { SC_CARD_TYPE_CARDOS_V5_0, SC_CARD_TYPE_CARDOS_V5_3 }
        THEN bad(SC_ERROR_INVALID_ARGUMENTS, sig)
        ELSE IF ex.r # SC_SUCCESS THEN bad(ex.r, zeroed)
        ELSE IF ey.r # SC_SUCCESS THEN bad(ey.r, zeroed)
        ELSE IF gp.r # SC_SUCCESS
             THEN [ r |-> gp.r, n |-> 0, out |-> written, oob |-> gp.buf.oob ]
             ELSE [ r |-> SC_SUCCESS, n |-> gp.buf.bytes_used, out |-> written,
                    oob |-> gp.buf.oob ]

-----------------------------------------------------------------------------
(* The AM-byte tables.  NO_OP stands for the -1U of the source: the AM byte *)
(* has no abstract operation.                                               *)

NO_OP == "NO_OP"

AM_EF_DELETE == 64
AM_EF_TERMINATE == 32
AM_EF_ACTIVATE == 16
AM_EF_DEACTIVATE == 8
AM_EF_WRITE == 4
AM_EF_UPDATE == 2
AM_EF_READ == 1
AM_EF_INCREASE == 50
AM_EF_DECREASE == 49

AM_DF_DELETE_SELF == 64
AM_DF_TERMINATE == 32
AM_DF_ACTIVATE == 16
AM_DF_DEACTIVATE == 8
AM_DF_CREATE_DF_FILE == 4
AM_DF_CREATE_EF_FILE == 2
AM_DF_DELETE_CHILD == 1
AM_DF_PUT_DATA_OCI == 131
AM_DF_PUT_DATA_OCI_UPDATE == 130
AM_DF_LOAD_EXECUTABLE == 129
AM_DF_PUT_DATA_FCI == 132

AmByte(am, operation) == [ am_byte |-> am, op_byte |-> operation ]

ef_acl ==
    << AmByte(AM_EF_DELETE, "SC_AC_OP_DELETE"),
       AmByte(AM_EF_TERMINATE, NO_OP),
       AmByte(AM_EF_ACTIVATE, "SC_AC_OP_REHABILITATE"),
       AmByte(AM_EF_DEACTIVATE, "SC_AC_OP_INVALIDATE"),
       AmByte(AM_EF_WRITE, "SC_AC_OP_WRITE"),
       AmByte(AM_EF_UPDATE, "SC_AC_OP_UPDATE"),
       AmByte(AM_EF_READ, "SC_AC_OP_READ"),
       AmByte(AM_EF_INCREASE, NO_OP),
       AmByte(AM_EF_DECREASE, NO_OP) >>

df_acl ==
    << AmByte(AM_DF_DELETE_SELF, "SC_AC_OP_DELETE"),
       AmByte(AM_DF_TERMINATE, NO_OP),
       AmByte(AM_DF_ACTIVATE, "SC_AC_OP_REHABILITATE"),
       AmByte(AM_DF_DEACTIVATE, "SC_AC_OP_INVALIDATE"),
       AmByte(AM_DF_CREATE_DF_FILE, "SC_AC_OP_CREATE"),
       AmByte(AM_DF_CREATE_EF_FILE, "SC_AC_OP_CREATE"),
       AmByte(AM_DF_DELETE_CHILD, NO_OP),
       AmByte(AM_DF_PUT_DATA_OCI, "SC_AC_OP_CREATE"),
       AmByte(AM_DF_PUT_DATA_OCI_UPDATE, "SC_AC_OP_UPDATE"),
       AmByte(AM_DF_LOAD_EXECUTABLE, NO_OP),
       AmByte(AM_DF_PUT_DATA_FCI, "SC_AC_OP_CREATE") >>

ef_acl_n == Len(ef_acl)
df_acl_n == Len(df_acl)

\* the abstract operations of the host (opensc.h)
AclOperations ==
    { "SC_AC_OP_DELETE", "SC_AC_OP_REHABILITATE", "SC_AC_OP_INVALIDATE",
      "SC_AC_OP_WRITE", "SC_AC_OP_UPDATE", "SC_AC_OP_READ", "SC_AC_OP_CREATE" }

SC_FILE_TYPE_DF == "SC_FILE_TYPE_DF"
SC_FILE_TYPE_WORKING_EF == "SC_FILE_TYPE_WORKING_EF"
SC_FILE_TYPE_INTERNAL_EF == "SC_FILE_TYPE_INTERNAL_EF"
SC_FILE_EF_TRANSPARENT == "SC_FILE_EF_TRANSPARENT"
SC_FILE_EF_LINEAR_FIXED == "SC_FILE_EF_LINEAR_FIXED"

-----------------------------------------------------------------------------
(* The host's file descriptor (sc_file_t) and its ACL.                      *)

\* no entry for an operation: sc_file_get_acl_entry returns NULL
NoEntry == [ set |-> FALSE, method |-> "", key_ref |-> 0 ]

AclEntry(method, key_ref) ==
    [ set |-> TRUE, method |-> method, key_ref |-> key_ref ]

\* file->acl of a host file: one entry or none per operation
sc_file_get_acl_entry(file, operation) == file.acl[operation]

\* the ACL of a file descriptor being decorated: the set of the entries
\* added, each << operation, method, key_ref >>
sc_file_add_acl_entry(acl, operation, method, key_ref) ==
    acl \cup { << operation, method, key_ref >> }

-----------------------------------------------------------------------------
(* ARL encoder.                                                             *)

\* what a writer returns when it gives up, and when it stored its bytes
GaveUp(buf) == [ r |-> -1, buf |-> buf ]
Stored(buf) == [ r |-> 0, buf |-> buf ]

\* a chain of writers joined by ||: W runs on the buffer res left unless a
\* writer before it gave up
OrElse(res, W(_)) == IF res.r # 0 THEN res ELSE W(res.buf)

\* the UserAuth predicate of lines 157-165
UserAuthTag(key_ref, buf) ==
    LET crt == OrElse(asn1_put_tag1(CRT_TAG_PINREF, U8(key_ref), buf_init(16)),
                      LAMBDA c : asn1_put_tag1(CRT_TAG_KUQ, KUQ_USER_AUTH, c))
    IN  IF crt.r # 0 THEN GaveUp(buf)
        ELSE asn1_put_tag(ARL_USER_AUTH_TAG, crt.buf.data, buf)

\* the switch of lines 146-168
AclPredicate(ac, key_ref, buf) ==
    IF ac = "SC_AC_NONE" THEN asn1_put_tag0(ARL_ALWAYS_TAG, buf)
    ELSE IF ac = "SC_AC_NEVER" THEN asn1_put_tag0(ARL_NEVER_TAG, buf)
    ELSE IF ac \in { "SC_AC_CHV", "SC_AC_TERM", "SC_AC_AUT" }
    THEN IF BitSet80(key_ref) \/ UnsignedGreater(key_ref, UINT8_MAX)
         THEN GaveUp(buf)
         ELSE UserAuthTag(key_ref, buf)
    ELSE GaveUp(buf)

add_acl_tag(am_byte, ac, key_ref, buf) ==
    OrElse(IF am_byte # 255
           THEN asn1_put_tag1(ARL_ACCESS_MODE_BYTE_TAG, am_byte, buf)
           ELSE Stored(buf),
           LAMBDA b : AclPredicate(ac, key_ref, b))

-----------------------------------------------------------------------------
(* FCP builder.                                                             *)

CARDOS5_PUT_DATA_INS == 218
CARDOS5_PUT_DATA_ECD_P1 == 1
CARDOS5_PUT_DATA_ECD_P2 == 110
CARDOS5_PHASE_CONTROL_CLA == 128
CARDOS5_PHASE_CONTROL_INS == 16
CARDOS5_PHASE_CONTROL_P1_TOGGLE == 0
CARDOS5_PHASE_CONTROL_P2_TOGGLE == 0
CARDOS5_ACCUMULATE_OBJECT_DATA_CLA == 128
CARDOS5_ACCUMULATE_OBJECT_DATA_INS == 6
CARDOS5_ACCUMULATE_OBJECT_DATA_P1_NEW == 1
CARDOS5_ACCUMULATE_OBJECT_DATA_P1_APPEND == 0
CARDOS5_CREATE_FILE_INS == 224

\* sizes of the stack buffers
DF_ARL_BUF_SIZE == 128
EF_ARL_BUF_SIZE == 96
FCP_BUF_SIZE == 128

\* an encoder that puts key reference 0 in every EF entry
EfKeyRefZero(key_ref) == 0

\* the key reference the EF loop hands to add_acl_tag (line 739)
EfKeyRef(key_ref) == U8(key_ref)

\* the entry of file a table row stands for (lines 641-647 and 735-741)
RowEntry(file, row) ==
    IF row.op_byte # NO_OP THEN sc_file_get_acl_entry(file, row.op_byte)
    ELSE NoEntry

\* ac and keyref of a row of the DF table
RowMethod(e) == IF e.set THEN e.method ELSE "SC_AC_NEVER"
DfRowKeyRef(e) == IF e.set THEN e.key_ref ELSE MINUS_1U
EfRowKeyRef(e) == IF e.set THEN EfKeyRef(e.key_ref) ELSE MINUS_1U

RECURSIVE DfPopulateArl(_, _, _)
\* the loop of lines 637-653, from row i on
DfPopulateArl(df, i, arl) ==
    IF i > df_acl_n THEN Stored(arl)
    ELSE OrElse(add_acl_tag(df_acl[i].am_byte,
                            RowMethod(RowEntry(df, df_acl[i])),
                            DfRowKeyRef(RowEntry(df, df_acl[i])), arl),
                LAMBDA b : DfPopulateArl(df, i + 1, b))

RECURSIVE EfPopulateArl(_, _, _)
\* the loop of lines 730-747, from row i on
EfPopulateArl(ef, i, arl) ==
    IF i > ef_acl_n THEN Stored(arl)
    ELSE OrElse(add_acl_tag(ef_acl[i].am_byte,
                            RowMethod(RowEntry(ef, ef_acl[i])),
                            EfRowKeyRef(RowEntry(ef, ef_acl[i])), arl),
                LAMBDA b : EfPopulateArl(ef, i + 1, b))

\* a command-scoped entry with the Always predicate (lines 662-663)
CommandAlways(cmd, arl) ==
    OrElse(asn1_put_tag(ARL_COMMAND_TAG, cmd, arl),
           LAMBDA b : asn1_put_tag0(ARL_ALWAYS_TAG, b))

\* a builder that never puts the PUT DATA entry in front
DfArlWithoutUpdate(e, arl) == Stored(arl)

\* the command-scoped entry for PUT DATA (lines 623-634)
DfArlUpdate(e, arl) ==
    IF e.set
    THEN OrElse(asn1_put_tag(ARL_COMMAND_TAG,
                    << 0, CARDOS5_PUT_DATA_INS, CARDOS5_PUT_DATA_ECD_P1,
                       CARDOS5_PUT_DATA_ECD_P2 >>, arl),
                LAMBDA b : add_acl_tag(255, e.method, e.key_ref, b))
    ELSE Stored(arl)

\* the ARL of a DF (lines 621-689)
DfArl(df) ==
    OrElse(OrElse(OrElse(OrElse(
        DfArlUpdate(sc_file_get_acl_entry(df, "SC_AC_OP_UPDATE"),
                    buf_init(DF_ARL_BUF_SIZE)),
        LAMBDA b : DfPopulateArl(df, 1, b)),
        LAMBDA b : CommandAlways(<< CARDOS5_PHASE_CONTROL_CLA,
                                    CARDOS5_PHASE_CONTROL_INS,
                                    CARDOS5_PHASE_CONTROL_P1_TOGGLE,
                                    CARDOS5_PHASE_CONTROL_P2_TOGGLE >>, b)),
        LAMBDA b : CommandAlways(<< CARDOS5_ACCUMULATE_OBJECT_DATA_CLA,
                                    CARDOS5_ACCUMULATE_OBJECT_DATA_INS,
                                    CARDOS5_ACCUMULATE_OBJECT_DATA_P1_NEW,
                                    0 >>, b)),
        LAMBDA b : CommandAlways(<< CARDOS5_ACCUMULATE_OBJECT_DATA_CLA,
                                    CARDOS5_ACCUMULATE_OBJECT_DATA_INS,
                                    CARDOS5_ACCUMULATE_OBJECT_DATA_P1_APPEND,
                                    0 >>, b))

\* big-endian 16 bits
Be16(n) == << (n \div 256) % 256, n % 256 >>

\* what a builder returns for the writers' result w: BUFFER_TOO_SMALL and
\* the buffer as it was, or success and the buffer written
Built(w, buf) ==
    IF w.r # 0 THEN [ r |-> SC_ERROR_BUFFER_TOO_SMALL, buf |-> buf ]
    ELSE [ r |-> SC_SUCCESS, buf |-> w.buf ]

\* the ARL arl put under FCP_TAG_ARL, unless building it failed
PutArl(arl, fcp) ==
    OrElse(arl, LAMBDA a : asn1_put_tag(FCP_TAG_ARL, a.data, fcp))

construct_df_fcp(df, fcp) ==
    IF df.size > UINT16_MAX
    THEN [ r |-> SC_ERROR_INVALID_ARGUMENTS, buf |-> fcp ]
    ELSE Built(OrElse(OrElse(OrElse(
             asn1_put_tag1(FCP_TAG_DESCRIPTOR, FCP_TYPE_DF, fcp),
             LAMBDA b : asn1_put_tag(FCP_TAG_DF_SIZE, Be16(df.size), b)),
             LAMBDA b : IF Len(df.name) # 0
                        THEN asn1_put_tag(FCP_TAG_DF_NAME, df.name, b)
                        ELSE Stored(b)),
             LAMBDA b : PutArl(DfArl(df), b)), fcp)

construct_ef_fcp(ef, fcp) ==
    IF ef.ef_structure # SC_FILE_EF_TRANSPARENT
    THEN [ r |-> SC_ERROR_NOT_SUPPORTED, buf |-> fcp ]
    ELSE IF ef.size > UINT16_MAX
    THEN [ r |-> SC_ERROR_INVALID_ARGUMENTS, buf |-> fcp ]
    ELSE Built(OrElse(OrElse(OrElse(
             asn1_put_tag1(FCP_TAG_DESCRIPTOR, FCP_TYPE_BINARY_EF, fcp),
             LAMBDA b : asn1_put_tag(FCP_TAG_EF_SIZE, Be16(ef.size), b)),
             LAMBDA b : asn1_put_tag0(FCP_TAG_EF_SFID, b)),
             LAMBDA b : PutArl(EfPopulateArl(ef, 1,
                                             buf_init(EF_ARL_BUF_SIZE)), b)),
             fcp)

\* lines 783-801: the file identifier, then the whole put in the caller's buf
FcpWrapped(file, body, buf) ==
    IF body.r # SC_SUCCESS THEN [ r |-> body.r, buf |-> buf ]
    ELSE IF file.id < 0 \/ file.id > UINT16_MAX
    THEN [ r |-> SC_ERROR_INVALID_ARGUMENTS, buf |-> buf ]
    ELSE Built(OrElse(asn1_put_tag(FCP_TAG_FILEID, Be16(file.id), body.buf),
                      LAMBDA f : asn1_put_tag(FCP_TAG_START, f.data, buf)),
               buf)

\* buf is the caller's cursor; the result holds the bytes put in it
construct_fcp(file, buf) ==
    IF file.type = SC_FILE_TYPE_DF
    THEN FcpWrapped(file, construct_df_fcp(file, buf_init(FCP_BUF_SIZE)), buf)
    ELSE IF file.type = SC_FILE_TYPE_WORKING_EF
    THEN FcpWrapped(file, construct_ef_fcp(file, buf_init(FCP_BUF_SIZE)), buf)
    ELSE [ r |-> SC_ERROR_NOT_SUPPORTED, buf |-> buf ]

-----------------------------------------------------------------------------
(* ARL decoder.  arl is the part of the payload not yet consumed, so its    *)
(* length is the len of the source and arl[i] of the source is ByteAt(arl,  *)
(* i).  safe turns FALSE when a byte at or past len is read or when len     *)
(* would be decreased below zero.                                           *)

\* arl[i] of the source (i from 0); 0 stands for a byte read past the payload
ByteAt(arl, i) == IF i < Len(arl) THEN arl[i + 1] ELSE 0

\* the key reference stored for a UserAuth predicate (lines 367 and 437)
StoredKeyRef(pin_ref) == pin_ref % (BACKTRACK_MASK + 1)

\* a decoder that reads a UserAuth predicate without looking at the length
UserAuthNeverCutShort(arl) == FALSE

\* the length check of lines 356 and 426
UserAuthCutShort(arl) == Len(arl) < 11

\* the predicate switch of lines 340-373 and 410-443: the method, the key
\* reference, the bytes the entry takes, the highest index read
ParsePredicate(arl) ==
    LET t == ByteAt(arl, 3)
        fail(code, hi) == [ r |-> code, ac |-> "", ref |-> SC_AC_KEY_REF_NONE,
                            used |-> 0, hi |-> hi ]
    IN  IF t = ARL_ALWAYS_TAG
        THEN IF ByteAt(arl, 4) # ARL_ALWAYS_LEN
             THEN fail(SC_ERROR_NO_CARD_SUPPORT, 4)
             ELSE [ r |-> SC_SUCCESS, ac |-> "SC_AC_NONE",
                    ref |-> SC_AC_KEY_REF_NONE, used |-> 5, hi |-> 4 ]
        ELSE IF t = ARL_NEVER_TAG
        THEN IF ByteAt(arl, 4) # ARL_NEVER_LEN
             THEN fail(SC_ERROR_NO_CARD_SUPPORT, 4)
             ELSE [ r |-> SC_SUCCESS, ac |-> "SC_AC_NEVER",
                    ref |-> SC_AC_KEY_REF_NONE, used |-> 5, hi |-> 4 ]
        ELSE IF t = ARL_USER_AUTH_TAG
        THEN IF UserAuthCutShort(arl)
             THEN fail(SC_ERROR_WRONG_LENGTH, 3)
             ELSE IF \/ ByteAt(arl, 4) # ARL_USER_AUTH_LEN
                     \/ ByteAt(arl, 5) # CRT_TAG_PINREF
                     \/ ByteAt(arl, 6) # CRT_LEN_PINREF
                  THEN fail(SC_ERROR_NO_CARD_SUPPORT, 6)
                  ELSE IF \/ ByteAt(arl, 8) # CRT_TAG_KUQ
                          \/ ByteAt(arl, 9) # CRT_LEN_KUQ
                          \/ ByteAt(arl, 10) # KUQ_USER_AUTH
                       THEN fail(SC_ERROR_NO_CARD_SUPPORT, 10)
                       ELSE [ r |-> SC_SUCCESS, ac |-> "SC_AC_CHV",
                              ref |-> StoredKeyRef(ByteAt(arl, 7)),
                              used |-> 11, hi |-> 10 ]
        ELSE fail(SC_ERROR_NO_CARD_SUPPORT, 3)

\* the row of table whose AM byte is am, 0 when there is none
AmRow(table, am) ==
    IF \E i \in 1 .. Len(table) : table[i].am_byte = am
    THEN CHOOSE i \in 1 .. Len(table) :
            /\ table[i].am_byte = am
            /\ \A j \in 1 .. (i - 1) : table[j].am_byte # am
    ELSE 0

\* one AM-scoped entry at the head of arl (lines 328-380 and 398-450)
ParseAmEntry(table, arl, acl) ==
    LET i == AmRow(table, ByteAt(arl, 2))
        p == ParsePredicate(arl)
        stop(code, hi) == [ r |-> code, acl |-> acl, used |-> 0, hi |-> hi ]
    IN  IF \/ ByteAt(arl, 0) # ARL_ACCESS_MODE_BYTE_TAG
           \/ ByteAt(arl, 1) # ARL_ACCESS_MODE_BYTE_LEN
        THEN stop(SC_ERROR_NO_CARD_SUPPORT, 1)
        ELSE IF i = 0 THEN stop(SC_ERROR_NO_CARD_SUPPORT, 2)
        ELSE IF p.r # SC_SUCCESS THEN stop(p.r, p.hi)
        ELSE [ r |-> SC_SUCCESS,
               acl |-> IF table[i].op_byte # NO_OP
                       THEN sc_file_add_acl_entry(acl, table[i].op_byte,
                                                  p.ac, p.ref)
                       ELSE acl,
               used |-> p.used, hi |-> p.hi ]

Parsed(code, acl, safe) == [ r |-> code, acl |-> acl, safe |-> safe ]

\* a decoder that lets leftover bytes pass
ParseEndLenient(arl, acl, safe) == Parsed(SC_SUCCESS, acl, safe)

\* the end of both decoders (lines 383-386 and 453-456)
ParseEnd(arl, acl, safe) ==
    IF Len(arl) # 0 THEN Parsed(SC_ERROR_WRONG_LENGTH, acl, safe)
    ELSE Parsed(SC_SUCCESS, acl, safe)

\* a decoder that knows no "allow everything" pattern
IsMfArlNever(arl) == FALSE

\* the MF's "allow everything" ARL (lines 297-298)
IsMfArl(arl) ==
    /\ Len(arl) = 9
    /\ arl[6] = ARL_DUMMY_TAG
    /\ arl[7] = ARL_DUMMY_LEN
    /\ arl[8] = ARL_ALWAYS_TAG
    /\ arl[9] = ARL_ALWAYS_LEN

\* lines 299-308
MfAcl(acl) ==
    acl \cup { << df_acl[i].op_byte, "SC_AC_NONE", SC_AC_KEY_REF_NONE >> :
                 i \in { j \in 1 .. df_acl_n : df_acl[j].op_byte # NO_OP } }

RECURSIVE ParseDfLoop(_, _, _)
\* the loop of lines 311-381 and what follows it
ParseDfLoop(arl, acl, safe) ==
    IF Len(arl) < 5 THEN ParseEnd(arl, acl, safe)
    ELSE IF ByteAt(arl, 0) = ARL_COMMAND_TAG
    THEN IF Len(arl) < 8
         THEN Parsed(SC_ERROR_WRONG_LENGTH, acl, safe)
         ELSE IF ByteAt(arl, 6) = ARL_USER_AUTH_TAG
              THEN LET skip == ByteAt(arl, 7)
                   IN  IF Len(arl) < skip + 8
                       THEN Parsed(SC_ERROR_WRONG_LENGTH, acl, safe)
                       ELSE ParseDfLoop(Drop(arl, skip + 8), acl,
                                        safe /\ skip + 8 <= Len(arl))
              ELSE ParseDfLoop(Drop(arl, 8), acl, safe)
    ELSE LET e == ParseAmEntry(df_acl, arl, acl)
         IN  IF e.r # SC_SUCCESS
             THEN Parsed(e.r, e.acl, safe /\ e.hi < Len(arl))
             ELSE ParseDfLoop(Drop(arl, e.used), e.acl,
                              safe /\ e.hi < Len(arl) /\ e.used <= Len(arl))

parse_df_arl(acl, arl) ==
    IF IsMfArl(arl) THEN Parsed(SC_SUCCESS, MfAcl(acl), TRUE)
    ELSE ParseDfLoop(arl, acl, TRUE)

RECURSIVE ParseEfLoop(_, _, _)
\* the loop of lines 397-451 and what follows it
ParseEfLoop(arl, acl, safe) ==
    IF Len(arl) < 5 THEN ParseEnd(arl, acl, safe)
    ELSE LET e == ParseAmEntry(ef_acl, arl, acl)
         IN  IF e.r # SC_SUCCESS
             THEN Parsed(e.r, e.acl, safe /\ e.hi < Len(arl))
             ELSE ParseEfLoop(Drop(arl, e.used), e.acl,
                              safe /\ e.hi < Len(arl) /\ e.used <= Len(arl))

parse_ef_arl(acl, arl) == ParseEfLoop(arl, acl, TRUE)

\* acl is the ACL the descriptor holds before the call
parse_arl(type, acl, arl) ==
    IF type = SC_FILE_TYPE_DF THEN parse_df_arl(acl, arl)
    ELSE IF type = SC_FILE_TYPE_WORKING_EF THEN parse_ef_arl(acl, arl)
    ELSE Parsed(SC_ERROR_INVALID_ARGUMENTS, acl, TRUE)

-----------------------------------------------------------------------------
(* The driver facade: what the host passes in and what the card answers.    *)

CardTypes == { SC_CARD_TYPE_CARDOS_V5_0, SC_CARD_TYPE_CARDOS_V5_3 }

\* env->operation
SecOperations == { "SC_SEC_OPERATION_SIGN", "SC_SEC_OPERATION_DECIPHER",
                   "SC_SEC_OPERATION_AUTHENTICATE" }

\* env->algorithm: an unsigned int the caller sets
Algorithms == { SC_ALGORITHM_RSA, SC_ALGORITHM_DSA, SC_ALGORITHM_EC, MINUS_1U }

\* how the exchange with the card ends: sc_transmit_apdu fails, sc_check_sw
\* rejects the status word, or both succeed
CardOutcomes == { "tx_error", "sw_error", "ok" }

\* raw PERFORM SECURITY OPERATION responses
SigResponses ==
    { << >>, << 1, 2, 3 >>, << 1, 2, 3, 4 >>, << 128, 1, 127, 2 >>,
      << 128, 1, 9, 9, 127, 2, 7, 7 >>, << 0, 1, 200, 200, 255, 2, 201, 201 >> }

\* sizes of the caller's out buffer
OutLens == { 1, 8, 16 }

\* sizes of the data to sign
DataLens == { 2 }

\* the out buffer as the caller hands it in
CallerBuffer(outlen) == Fill(238, outlen)

\* PIN references a caller puts in a request
PinReferences == { 1, 127, 129 }

\* a host file with nothing set
NoHostFile ==
    [ type |-> "", id |-> 0, size |-> 0, name |-> << >>, ef_structure |-> "",
      acl |-> [ o \in AclOperations |-> NoEntry ] ]

NoArgs ==
    [ env_operation |-> "", env_algorithm |-> 0, key_ref |-> 0, datalen |-> 0,
      outlen |-> 0, card |-> "", resp |-> << >>, pin_reference |-> 0,
      path_type |-> "", path |-> << >>, want_file |-> FALSE,
      alloc_ok |-> TRUE, garbage |-> 0, file |-> NoHostFile,
      payload |-> << >> ]

NoFile == [ present |-> FALSE, type |-> "", sec_attr |-> << >>, acl |-> {} ]

NoDelegation == [ called |-> FALSE, pin_reference |-> 0 ]

NoPinRequest == [ live |-> FALSE, pin_reference |-> 0 ]

Apdu(cla, ins, p1, p2, data) ==
    [ cla |-> cla, ins |-> ins, p1 |-> p1, p2 |-> p2, data |-> data ]

CARDOS5_MANAGE_SECURITY_ENVIRONMENT_INS == 34
CARDOS5_MANAGE_SECURITY_ENVIRONMENT_P1_SET == 65
CARDOS5_MANAGE_SECURITY_ENVIRONMENT_P2_DECIPHER == 184
CARDOS5_MANAGE_SECURITY_ENVIRONMENT_P2_SIGN == 182
CARDOS5_PERFORM_SECURITY_OPERATION_INS == 42
CARDOS5_PERFORM_SECURITY_OPERATION_P1_SIGN == 158
CARDOS5_PERFORM_SECURITY_OPERATION_P2_SIGN == 154
ISO7816_VERIFY_INS == 32

\* the result of a call that touched neither a buffer, a file nor the PIN
Returned(name, a, code, sent) ==
    /\ op' = name
    /\ args' = a
    /\ ret' = code
    /\ retlen' = 0
    /\ apdus' = sent
    /\ out' = << >>
    /\ oob' = 0
    /\ file_out' = NoFile
    /\ delegated' = NoDelegation

-----------------------------------------------------------------------------
(* cardos5_init and cardos5_finish.                                         *)

CardInit ==
    /\ drv_data = "NULL"
    /\ \E calloc_ok \in BOOLEAN :
         IF calloc_ok
         THEN /\ drv_data' = "ALLOCATED"
              /\ cse_algorithm' = MINUS_1U
              /\ Returned("init", NoArgs, SC_SUCCESS, << >>)
         ELSE /\ UNCHANGED << drv_data, cse_algorithm >>
              /\ Returned("init", NoArgs, SC_ERROR_OUT_OF_MEMORY, << >>)
    /\ UNCHANGED << card_type, pin_req >>

CardFinish ==
    /\ drv_data' = "NULL"
    /\ cse_algorithm' = MINUS_1U
    /\ Returned("finish", NoArgs, SC_SUCCESS, << >>)
    /\ UNCHANGED << card_type, pin_req >>

-----------------------------------------------------------------------------
(* cardos5_set_security_env.                                                *)

\* a driver that records the RSA family whatever the caller passed
RecordedAlgorithmRsa(algorithm) == SC_ALGORITHM_RSA

\* what the slot holds once MANAGE SECURITY ENVIRONMENT succeeded (line 901)
RecordedAlgorithm(algorithm) == algorithm

\* a driver that leaves the slot alone until the card accepted the command
SlotKeptAtEntry(algorithm) == algorithm

\* what set_security_env makes of the slot before it looks at the
\* environment (line 861)
SlotAtEntry(algorithm) == MINUS_1U

\* the CRT body of MANAGE SECURITY ENVIRONMENT (lines 880-889)
SecurityEnvCrt(key_ref) ==
    LET b1 == asn1_put_tag1(CRT_TAG_KEYREF, key_ref, buf_init(16))
        b2 == asn1_put_tag1(CRT_TAG_KUQ, KUQ_DECRYPT, b1.buf)
    IN  [ r |-> IF b1.r # 0 \/ b2.r # 0 THEN -1 ELSE 0, data |-> b2.buf.data ]

SetSecurityEnv ==
    \E operation \in SecOperations, algorithm \in Algorithms,
       card \in CardOutcomes :
      LET a == [ NoArgs EXCEPT !.env_operation = operation,
                               !.env_algorithm = algorithm,
                               !.key_ref = 1, !.card = card ]
          p2 == IF operation = "SC_SEC_OPERATION_DECIPHER"
                THEN CARDOS5_MANAGE_SECURITY_ENVIRONMENT_P2_DECIPHER
                ELSE CARDOS5_MANAGE_SECURITY_ENVIRONMENT_P2_SIGN
          crt == SecurityEnvCrt(a.key_ref)
          apdu == Apdu(0, CARDOS5_MANAGE_SECURITY_ENVIRONMENT_INS,
                       CARDOS5_MANAGE_SECURITY_ENVIRONMENT_P1_SET, p2, crt.data)
      IN  \* inputs the call never looks at stay at their defaults
          /\ (drv_data = "NULL" \/ operation = "SC_SEC_OPERATION_AUTHENTICATE")
                => (card = "ok" /\ algorithm = SC_ALGORITHM_RSA)
          /\ IF drv_data = "NULL"
             THEN /\ UNCHANGED cse_algorithm
                  /\ Returned("set_security_env", a,
                              SC_ERROR_INVALID_ARGUMENTS, << >>)
             ELSE IF operation \notin { "SC_SEC_OPERATION_DECIPHER",
                                        "SC_SEC_OPERATION_SIGN" }
             THEN /\ cse_algorithm' = SlotAtEntry(cse_algorithm)
                  /\ Returned("set_security_env", a,
                              SC_ERROR_INVALID_ARGUMENTS, << >>)
             ELSE IF crt.r # 0
             THEN /\ cse_algorithm' = SlotAtEntry(cse_algorithm)
                  /\ Returned("set_security_env", a,
                              SC_ERROR_BUFFER_TOO_SMALL, << >>)
             ELSE IF card = "tx_error"
             THEN /\ cse_algorithm' = SlotAtEntry(cse_algorithm)
                  /\ Returned("set_security_env", a,
                              SC_ERROR_TRANSMIT_FAILED, << apdu >>)
             ELSE IF card = "sw_error"
             THEN /\ cse_algorithm' = SlotAtEntry(cse_algorithm)
                  /\ Returned("set_security_env", a,
                              SC_ERROR_CARD_CMD_FAILED, << apdu >>)
             ELSE /\ cse_algorithm' = RecordedAlgorithm(algorithm)
                  /\ Returned("set_security_env", a, SC_SUCCESS, << apdu >>)
          /\ UNCHANGED << card_type, drv_data, pin_req >>

-----------------------------------------------------------------------------
(* cardos5_compute_signature.  Inputs the call never looks at (the card's   *)
(* answer when nothing is sent) stay at their defaults.                     *)

\* a state check that only looks at the private data pointer
SignatureRefusedNullOnly(priv, algorithm) == priv = "NULL"

\* the state check of lines 1053-1057: TRUE when the call is refused
SignatureRefused(priv, algorithm) ==
    priv = "NULL" \/ algorithm = MINUS_1U

\* the out buffer once the transport stored the response in it
Received(buffer, resp) == resp \o Drop(buffer, Len(resp))

\* a driver that post-processes every response as an EC signature
SignatureResultEncoded(type, algorithm, buffer, resplen, outlen) ==
    IF resplen > INT_MAX
    THEN [ r |-> SC_ERROR_WRONG_LENGTH, n |-> 0, out |-> buffer, oob |-> 0 ]
    ELSE encode_ec_sig(type, buffer, resplen, outlen)

\* lines 1086-1098: the result for a response of resplen bytes lying in buffer
SignatureResult(type, algorithm, buffer, resplen, outlen) ==
    IF resplen > INT_MAX
    THEN [ r |-> SC_ERROR_WRONG_LENGTH, n |-> 0, out |-> buffer, oob |-> 0 ]
    ELSE IF algorithm = SC_ALGORITHM_RSA
    THEN [ r |-> SC_SUCCESS, n |-> resplen, out |-> buffer, oob |-> 0 ]
    ELSE IF algorithm = SC_ALGORITHM_EC
    THEN encode_ec_sig(type, buffer, resplen, outlen)
    ELSE [ r |-> SC_ERROR_INVALID_ARGUMENTS, n |-> 0, out |-> buffer, oob |-> 0 ]

\* cardos5_compute_signature for data of a length in datalens, an out buffer
\* of a size in outlens, and a card that answers in one of the ways of
\* outcomes with one of responses
SignatureComputed(datalens, outlens, outcomes, responses) ==
    \E datalen \in datalens, outlen \in outlens :
    \E card \in IF SignatureRefused(drv_data, cse_algorithm) \/ outlen < datalen
                THEN { "ok" } ELSE outcomes :
    \E resp \in IF SignatureRefused(drv_data, cse_algorithm)
                   \/ outlen < datalen \/ card # "ok"
                THEN { << >> } ELSE responses :
      LET a == [ NoArgs EXCEPT !.datalen = datalen, !.outlen = outlen,
                               !.card = card, !.resp = resp ]
          apdu == Apdu(0, CARDOS5_PERFORM_SECURITY_OPERATION_INS,
                       CARDOS5_PERFORM_SECURITY_OPERATION_P1_SIGN,
                       CARDOS5_PERFORM_SECURITY_OPERATION_P2_SIGN,
                       Fill(17, datalen))
          buffer == Received(CallerBuffer(outlen), resp)
          res == SignatureResult(card_type, cse_algorithm, buffer, Len(resp),
                                 outlen)
          done(code, n, sent, o, past) ==
              /\ op' = "compute_signature"
              /\ args' = a
              /\ ret' = code
              /\ retlen' = n
              /\ apdus' = sent
              /\ out' = o
              /\ oob' = past
              /\ file_out' = NoFile
              /\ delegated' = NoDelegation
      IN  \* the card never answers with more than Le = outlen bytes
          /\ Len(resp) <= outlen
          /\ IF SignatureRefused(drv_data, cse_algorithm)
             THEN done(SC_ERROR_INVALID_ARGUMENTS, 0, << >>,
                       CallerBuffer(outlen), 0)
             ELSE IF outlen < datalen
             THEN done(SC_ERROR_BUFFER_TOO_SMALL, 0, << >>,
                       CallerBuffer(outlen), 0)
             ELSE IF card = "tx_error"
             THEN done(SC_ERROR_TRANSMIT_FAILED, 0, << apdu >>,
                       CallerBuffer(outlen), 0)
             ELSE IF card = "sw_error"
             THEN done(SC_ERROR_CARD_CMD_FAILED, 0, << apdu >>,
                       CallerBuffer(outlen), 0)
             ELSE done(res.r, res.n, << apdu >>, res.out, res.oob)
          /\ UNCHANGED << card_type, drv_data, cse_algorithm, pin_req >>

ComputeSignature ==
    SignatureComputed(DataLens, OutLens, CardOutcomes, SigResponses)

-----------------------------------------------------------------------------
(* cardos5_pin_cmd, on a request object the caller owns.                    *)

\* the caller fills in a request
NewPinRequest ==
    /\ \E ref \in PinReferences :
         pin_req' = [ live |-> TRUE, pin_reference |-> ref ]
    /\ UNCHANGED << cardVars, op, args, ret, retlen, apdus, out, oob, file_out,
                    delegated >>

\* a driver that hands the reference on as the caller gave it
WithoutBacktrack(ref) == ref

\* data->pin_reference |= BACKTRACK_PIN
WithBacktrack(ref) == IF BitSet80(ref) THEN ref ELSE ref + BACKTRACK_PIN

\* a driver that sets the bit in a copy of the request
RequestUntouched(req, sent) == req

\* the caller's request once line 1306 stored the reference in it
RequestAfter(req, sent) == [ req EXCEPT !.pin_reference = sent ]

\* the generic ISO-7816 pin_cmd: sends VERIFY with the reference as P2
iso_pin_cmd(ref) == << Apdu(0, ISO7816_VERIFY_INS, 0, ref, << >>) >>

PinCmd ==
    /\ pin_req.live
    /\ \E iso_ret \in { SC_SUCCESS, SC_ERROR_PIN_CODE_INCORRECT } :
         LET a == [ NoArgs EXCEPT !.pin_reference = pin_req.pin_reference ]
             sent == WithBacktrack(pin_req.pin_reference)
         IN  IF BitSet80(pin_req.pin_reference)
             THEN /\ Returned("pin_cmd", a, SC_ERROR_INCORRECT_PARAMETERS, << >>)
                  /\ UNCHANGED pin_req
             ELSE /\ pin_req' = RequestAfter(pin_req, sent)
                  /\ op' = "pin_cmd"
                  /\ args' = a
                  /\ ret' = iso_ret
                  /\ retlen' = 0
                  /\ apdus' = iso_pin_cmd(sent)
                  /\ out' = << >>
                  /\ oob' = 0
                  /\ file_out' = NoFile
                  /\ delegated' = [ called |-> TRUE, pin_reference |-> sent ]
    /\ UNCHANGED cardVars

-----------------------------------------------------------------------------
(* FCI parsing and cardos5_select_file.                                     *)

CARDOS5_SELECT_INS == 164
CARDOS5_SELECT_P1_FILE_ID == 0
CARDOS5_SELECT_P1_FULL_PATH == 8
CARDOS5_SELECT_P2_FCI == 0
CARDOS5_SELECT_P2_NO_RESPONSE == 12

RECURSIVE sc_asn1_find_tag(_, _)
\* sc_asn1_find_tag of libopensc (asn1.c) for one-byte tags: the content of
\* the first TLV of buf with that tag, found FALSE when there is none
sc_asn1_find_tag(buf, tag) ==
    LET none == [ found |-> FALSE, content |-> << >> ]
        t == buf[1]
        l == buf[2]
        hdr == IF l < 128 THEN 2 ELSE IF l = 129 THEN 3 ELSE 4
        taglen == IF l < 128 THEN l
                  ELSE IF l = 129 THEN buf[3]
                  ELSE buf[3] * 256 + buf[4]
    IN  IF Len(buf) < 2 THEN none
        ELSE IF t = 0 \/ t = 255 THEN none
        ELSE IF l = 128 \/ l > 130 \/ Len(buf) < hdr THEN none
        ELSE IF taglen > Len(buf) - hdr THEN none
        ELSE IF t = tag
             THEN [ found |-> TRUE,
                    content |-> SubSeq(buf, hdr + 1, hdr + taglen) ]
             ELSE sc_asn1_find_tag(Drop(buf, hdr + taglen), tag)

\* the generic ISO-7816 process_fci, as far as the driver depends on it: the
\* file descriptor byte (tag 82) gives the kind of the file
iso_process_fci(file, buf) ==
    LET d == sc_asn1_find_tag(buf, FCP_TAG_DESCRIPTOR)
        kind == IF d.found /\ Len(d.content) > 0
                THEN (d.content[1] \div 8) % 8
                ELSE -1
    IN  [ file EXCEPT !.type = IF kind = 7 THEN SC_FILE_TYPE_DF
                               ELSE IF kind = 0 THEN SC_FILE_TYPE_WORKING_EF
                               ELSE IF kind = 1 THEN SC_FILE_TYPE_INTERNAL_EF
                               ELSE @ ]

\* a process_fci that leaves the security attributes alone
process_fci_without_arl(file, buf) == iso_process_fci(file, buf)

cardos5_process_fci(file, buf) ==
    LET f == iso_process_fci(file, buf)
        tag == sc_asn1_find_tag(buf, FCP_TAG_ARL)
    IN  IF tag.found /\ Len(tag.content) # 0
        THEN [ f EXCEPT !.sec_attr = tag.content ]
        ELSE f

\* sc_file_new
NewFile == [ present |-> TRUE, type |-> "", sec_attr |-> << >>, acl |-> {} ]

\* buf[i] of select_file (i from 0) once the transport stored resp in the
\* zeroed buffer
BufAt(resp, i) == IF i < Len(resp) THEN resp[i + 1] ELSE 0

\* where the FCI handed to process_fci starts in the response buffer and how
\* long select_file says it is (lines 570-577)
FciWindow(resp) ==
    IF BufAt(resp, 1) = 129
    THEN [ off |-> 3, len |-> BufAt(resp, 2) ]
    ELSE [ off |-> 4, len |-> BufAt(resp, 2) * 256 + BufAt(resp, 3) ]

\* SELECT FILE responses
FciResponses ==
    { << >>, << 111 >>, << 111, 129 >>, << 111, 130, 0 >>,
      << 98, 129, 3, 130, 1, 56 >>,
      << 111, 3, 130, 1, 56 >>,
      << 111, 129, 5, 171, 3, 128, 1, 255 >>,
      << 111, 129, 10, 130, 1, 56, 171, 5, 128, 1, 64, 144, 0 >>,
      << 111, 129, 14, 130, 1, 56, 171, 9, 128, 1, 255, 0, 0, 129, 0, 144, 0 >>,
      << 111, 129, 12, 130, 1, 56, 171, 7, 128, 1, 255, 129, 0, 144, 0 >>,
      << 111, 129, 16, 130, 1, 56, 171, 11, 128, 1, 64, 164, 6, 131, 1, 129,
         149, 1, 8 >>,
      << 111, 129, 10, 130, 1, 1, 171, 5, 128, 1, 1, 144, 0 >>,
      << 111, 129, 16, 130, 1, 1, 171, 11, 128, 1, 2, 164, 6, 131, 1, 255,
         149, 1, 8 >>,
      << 111, 130, 0, 10, 130, 1, 56, 171, 5, 128, 1, 64, 151, 0 >>,
      << 111, 129, 32, 130, 1, 56 >>,
      << 111, 130, 1, 2, 130, 1, 56 >> }

\* paths the host asks for
SelectPaths ==
    { [ type |-> "SC_PATH_TYPE_PATH", value |-> << 63, 0 >> ],
      [ type |-> "SC_PATH_TYPE_PATH", value |-> << 63, 0, 80, 21 >> ],
      [ type |-> "SC_PATH_TYPE_PATH", value |-> << 80, 21 >> ],
      [ type |-> "SC_PATH_TYPE_PATH", value |-> << 63 >> ],
      [ type |-> "SC_PATH_TYPE_FILE_ID", value |-> << 63, 0 >> ] }

\* bytes the stack may hold behind the response buffer
StackGarbage == { 0, 171 }

\* lines 501-502: TRUE when the path is refused
PathRefused(path) ==
    \/ path.type # "SC_PATH_TYPE_PATH"
    \/ Len(path.value) < 2
    \/ path.value[1] # 63
    \/ path.value[2] # 0

\* lines 556-557: TRUE when the response is no FCI envelope
NotFci(resp) ==
    \/ Len(resp) < 2
    \/ BufAt(resp, 0) # ISO7816_TAG_FCI
    \/ (BufAt(resp, 1) # 129 /\ BufAt(resp, 1) # 130)

\* how many bytes of the FCI window lie behind the response buffer
FciExcess(resp) ==
    LET w == FciWindow(resp)
    IN  IF w.off + w.len > SC_MAX_APDU_BUFFER_SIZE
        THEN w.off + w.len - SC_MAX_APDU_BUFFER_SIZE ELSE 0

\* the bytes process_fci is handed: those of the response buffer, and behind
\* its end whatever the stack holds there
FciBytes(resp, garbage) ==
    LET w == FciWindow(resp)
    IN  [ i \in 1 .. w.len |->
            IF w.off + i <= SC_MAX_APDU_BUFFER_SIZE
            THEN BufAt(resp, w.off + i - 1)
            ELSE garbage ]

\* Inputs the call never looks at stay at their defaults: the card's answer
\* when nothing is sent, the allocation when no file is allocated, the bytes
\* behind the buffer when they are not read.
SelectFile ==
    \E path \in SelectPaths, want_file \in BOOLEAN :
    \E card \in IF PathRefused(path) THEN { "ok" } ELSE CardOutcomes :
    \E resp \in IF ~PathRefused(path) /\ card = "ok" /\ want_file
                THEN FciResponses ELSE { << >> } :
    \E alloc_ok \in IF ~PathRefused(path) /\ card = "ok" /\ want_file
                       /\ ~NotFci(resp)
                    THEN BOOLEAN ELSE { TRUE } :
    \E garbage \in IF ~PathRefused(path) /\ card = "ok" /\ want_file
                      /\ ~NotFci(resp) /\ alloc_ok /\ FciExcess(resp) > 0
                   THEN StackGarbage ELSE { 0 } :
      LET a == [ NoArgs EXCEPT !.path_type = path.type, !.path = path.value,
                               !.want_file = want_file, !.card = card,
                               !.resp = resp, !.alloc_ok = alloc_ok,
                               !.garbage = garbage ]
          apdu == Apdu(0, CARDOS5_SELECT_INS,
                       IF Len(path.value) = 2 THEN CARDOS5_SELECT_P1_FILE_ID
                       ELSE CARDOS5_SELECT_P1_FULL_PATH,
                       IF want_file THEN CARDOS5_SELECT_P2_FCI
                       ELSE CARDOS5_SELECT_P2_NO_RESPONSE,
                       IF Len(path.value) = 2 THEN path.value
                       ELSE Drop(path.value, 2))
          excess == FciExcess(resp)
          file == cardos5_process_fci(NewFile, FciBytes(resp, garbage))
          p == parse_arl(file.type, file.acl, file.sec_attr)
          done(code, sent, f, past) ==
              /\ op' = "select_file"
              /\ args' = a
              /\ ret' = code
              /\ retlen' = 0
              /\ apdus' = sent
              /\ out' = << >>
              /\ oob' = past
              /\ file_out' = f
              /\ delegated' = NoDelegation
      IN  /\ IF PathRefused(path)
             THEN done(SC_ERROR_INVALID_ARGUMENTS, << >>, NoFile, 0)
             ELSE IF card = "tx_error"
             THEN done(SC_ERROR_TRANSMIT_FAILED, << apdu >>, NoFile, 0)
             ELSE IF card = "sw_error"
             THEN done(SC_ERROR_CARD_CMD_FAILED, << apdu >>, NoFile, 0)
             ELSE IF ~want_file
             THEN done(SC_SUCCESS, << apdu >>, NoFile, 0)
             ELSE IF NotFci(resp)
             THEN done(SC_ERROR_UNKNOWN_DATA_RECEIVED, << apdu >>, NoFile, 0)
             ELSE IF ~alloc_ok
             THEN done(SC_ERROR_OUT_OF_MEMORY, << apdu >>, NoFile, 0)
             ELSE IF p.r # SC_SUCCESS
             THEN done(p.r, << apdu >>, NoFile, excess)
             ELSE done(SC_SUCCESS, << apdu >>, [ file EXCEPT !.acl = p.acl ],
                       excess)
          /\ UNCHANGED << cardVars, pin_req >>

-----------------------------------------------------------------------------
(* The facade of one mounted card.                                          *)

Init ==
    /\ card_type \in CardTypes
    /\ drv_data = "ALLOCATED"
    /\ cse_algorithm = MINUS_1U
    /\ pin_req = NoPinRequest
    /\ op = "init"
    /\ args = NoArgs
    /\ ret = SC_SUCCESS
    /\ retlen = 0
    /\ apdus = << >>
    /\ out = << >>
    /\ oob = 0
    /\ file_out = NoFile
    /\ delegated = NoDelegation

Next ==
    \/ CardInit
    \/ CardFinish
    \/ SetSecurityEnv
    \/ ComputeSignature
    \/ NewPinRequest
    \/ PinCmd
    \/ SelectFile

Spec == Init /\ [][Next]_vars

-----------------------------------------------------------------------------
(* The ARL codec on its own: cardos5_create_file on a host file, and        *)
(* parse_arl on a payload.  The initial state draws the input, the actions  *)
(* apply the driver to it.                                                  *)

\* how many operations of a host file have an ACL entry
MaxAclEntries == 2

\* how many fragments make up an ARL payload
MaxChunks == 2

\* the ACL entries a host sets on a file
AclChoices ==
    { AclEntry("SC_AC_NONE", SC_AC_KEY_REF_NONE),
      AclEntry("SC_AC_NEVER", SC_AC_KEY_REF_NONE),
      AclEntry("SC_AC_CHV", 1), AclEntry("SC_AC_CHV", 127),
      AclEntry("SC_AC_TERM", 2), AclEntry("SC_AC_AUT", 3),
      AclEntry("SC_AC_CHV", 129) }

\* the ACLs with at most MaxAclEntries entries
HostAcls ==
    UNION { { [ o \in AclOperations |-> IF o \in S THEN f[o] ELSE NoEntry ] :
                f \in [ S -> AclChoices ] } :
            S \in { T \in SUBSET AclOperations :
                      Cardinality(T) <= MaxAclEntries } }

\* key references of an unsigned int on both sides of the byte range and
\* of the backtrack bit
WideKeyRefs == { 0, 128, 255, 256, 257, 384, 65537 }

\* the files a host asks the card to create
ArlFiles ==
    { [ type |-> t, id |-> 20529, size |-> 256, name |-> << >>,
        ef_structure |-> SC_FILE_EF_TRANSPARENT, acl |-> a ] :
        t \in { SC_FILE_TYPE_DF, SC_FILE_TYPE_WORKING_EF }, a \in HostAcls }
    \cup
    { [ NoHostFile EXCEPT !.type = SC_FILE_TYPE_DF, !.id = 16128,
                          !.name = << 1, 2, 3 >> ],
      [ NoHostFile EXCEPT !.type = SC_FILE_TYPE_DF, !.size = 65536 ],
      [ NoHostFile EXCEPT !.type = SC_FILE_TYPE_DF, !.id = 65536 ],
      [ NoHostFile EXCEPT !.type = SC_FILE_TYPE_WORKING_EF,
                          !.ef_structure = SC_FILE_EF_LINEAR_FIXED ],
      [ NoHostFile EXCEPT !.type = SC_FILE_TYPE_INTERNAL_EF ] }
    \cup
    { [ type |-> t, id |-> 20529, size |-> 256, name |-> << >>,
        ef_structure |-> SC_FILE_EF_TRANSPARENT,
        acl |-> [ o \in AclOperations |->
                    IF o = p THEN AclEntry(m, k) ELSE NoEntry ] ] :
        t \in { SC_FILE_TYPE_DF, SC_FILE_TYPE_WORKING_EF },
        p \in AclOperations,
        m \in { "SC_AC_CHV", "SC_AC_TERM", "SC_AC_AUT" },
        k \in WideKeyRefs }

\* fragments of ARL payloads: entries, parts of entries and other bytes
ArlChunks ==
    { << 128, 1, 64, 144, 0 >>, << 128, 1, 2, 151, 0 >>,
      << 128, 1, 1, 144, 0 >>, << 128, 1, 130, 151, 0 >>,
      << 128, 1, 50, 144, 0 >>,
      << 128, 1, 64, 164, 6, 131, 1, 129, 149, 1, 8 >>,
      << 128, 1, 2, 164, 6, 131, 1, 5, 149, 1, 8 >>,
      << 128, 1, 2, 164, 6, 131, 1, 255, 149, 1, 9 >>,
      << 128, 1, 255 >>, << 128, 1, 255, 0, 0 >>, << 129, 0, 144, 0 >>,
      << 132, 4, 0, 218, 1, 110, 144, 0 >>,
      << 132, 4, 0, 218, 1, 110, 164, 6, 131, 1, 1, 149, 1, 8 >>,
      << 132, 4, 0 >>, << 128, 1, 64, 164, 6 >>, << 128, 1, 64, 145, 0 >>,
      << 128, 1, 64, 144, 1 >> }

RECURSIVE ChunkSequences(_)
\* the payloads made of at most n fragments
ChunkSequences(n) ==
    IF n = 0 THEN { << >> }
    ELSE LET shorter == ChunkSequences(n - 1)
         IN  shorter \cup { p \o c : p \in shorter, c \in ArlChunks }

ArlPayloads == ChunkSequences(MaxChunks)

\* the inputs of the codec: a file to create, or a payload to parse against
\* a descriptor of some kind
ArlInputs ==
    { [ NoArgs EXCEPT !.file = f ] : f \in ArlFiles }
    \cup
    { [ NoArgs EXCEPT !.file = [ NoHostFile EXCEPT !.type = t ],
                      !.payload = p ] :
        t \in { SC_FILE_TYPE_DF, SC_FILE_TYPE_WORKING_EF,
                SC_FILE_TYPE_INTERNAL_EF },
        p \in ArlPayloads }

\* lines 816-837 of cardos5_create_file, c the result of construct_fcp
FileCreated(c, a, card) ==
    IF c.r # SC_SUCCESS
    THEN Returned("create_file", a, c.r, << >>)
    ELSE IF card = "tx_error"
    THEN Returned("create_file", a, SC_ERROR_TRANSMIT_FAILED,
                  << Apdu(0, CARDOS5_CREATE_FILE_INS, 0, 0, c.buf.data) >>)
    ELSE IF card = "sw_error"
    THEN Returned("create_file", a, SC_ERROR_CARD_CMD_FAILED,
                  << Apdu(0, CARDOS5_CREATE_FILE_INS, 0, 0, c.buf.data) >>)
    ELSE Returned("create_file", a, SC_SUCCESS,
                  << Apdu(0, CARDOS5_CREATE_FILE_INS, 0, 0, c.buf.data) >>)

\* cardos5_create_file.  The card's answer counts only when the FCP was
\* built and sent.
CreateFile ==
    /\ op = "init"
    /\ \E card \in CardOutcomes :
         /\ FileCreated(construct_fcp(args.file,
                                      buf_init(SC_MAX_APDU_BUFFER_SIZE)),
                        [ args EXCEPT !.card = card ], card)
         /\ (card # "ok" => apdus' # << >>)
    /\ UNCHANGED << cardVars, pin_req >>

RECURSIVE EmittedContent(_, _)
\* the content asn1_put_tag stored under tag in a run of its TLVs, << >>
\* when there is none
EmittedContent(bytes, tag) ==
    IF Len(bytes) < 2 THEN << >>
    ELSE IF bytes[1] = tag THEN SubSeq(bytes, 3, 2 + bytes[2])
    ELSE EmittedContent(Drop(bytes, 2 + bytes[2]), tag)

\* the result of parse_arl on a descriptor of kind type and the payload arl
ArlParsed(name, a, type, arl) ==
    LET p == parse_arl(type, {}, arl)
    IN  /\ op' = name
        /\ args' = a
        /\ ret' = p.r
        /\ retlen' = 0
        /\ apdus' = << >>
        /\ out' = << >>
        /\ oob' = 0
        /\ file_out' = [ present |-> TRUE, type |-> type, sec_attr |-> arl,
                         acl |-> p.acl ]
        /\ delegated' = NoDelegation

\* parse_arl on a payload
ParseArl ==
    /\ op = "init"
    /\ ArlParsed("parse_arl", args, args.file.type, args.payload)
    /\ UNCHANGED << cardVars, pin_req >>

\* parse_arl on the ARL of the FCP that create_file handed to the transport
ParseCreatedArl ==
    /\ op = "create_file"
    /\ apdus # << >>
    /\ LET fcp == EmittedContent(apdus[1].data, FCP_TAG_START)
           arl == EmittedContent(fcp, FCP_TAG_ARL)
       IN  ArlParsed("parse_created_arl", [ args EXCEPT !.payload = arl ],
                     args.file.type, arl)
    /\ UNCHANGED << cardVars, pin_req >>

InitArl ==
    /\ card_type = SC_CARD_TYPE_CARDOS_V5_3
    /\ drv_data = "ALLOCATED"
    /\ cse_algorithm = MINUS_1U
    /\ pin_req = NoPinRequest
    /\ op = "init"
    /\ args \in ArlInputs
    /\ ret = SC_SUCCESS
    /\ retlen = 0
    /\ apdus = << >>
    /\ out = << >>
    /\ oob = 0
    /\ file_out = NoFile
    /\ delegated = NoDelegation

NextArl ==
    \/ CreateFile
    \/ ParseArl
    \/ ParseCreatedArl

SpecArl == InitArl /\ [][NextArl]_vars

-----------------------------------------------------------------------------
(* The signature post-processor on its own: compute_signature on a card     *)
(* whose security environment holds EC.  The initial state draws the card,  *)
(* the raw signature and the size of the out buffer.                        *)

\* the longest coordinate a card answers with
MaxCoordinateLen == 126

CoordinateLens == { 0, 1, 2, 3, 32, 62, 63, 124, 125, 126, MaxCoordinateLen }

\* the first two bytes of a coordinate
CoordinateHeads ==
    { << 0, 0 >>, << 0, 128 >>, << 1, 0 >>, << 127, 128 >>, << 128, 0 >>,
      << 255, 128 >> }

\* a coordinate of n bytes that starts with head and goes on with fill
Coordinate(n, head, fill) ==
    [ i \in 1 .. n |-> IF i <= 2 THEN head[i] ELSE fill ]

\* the two trailers of a CardOS 5.0 signature
Trailers ==
    { << << 0, 0 >>, << 0, 0 >> >>, << << 144, 0 >>, << 255, 255 >> >>,
      << << 255, 255 >>, << 128, 1 >> >> }

\* the raw signature of a card: R || S, on CardOS 5.0 each with its trailer
RawSignature(type, R, S, pad) ==
    IF type = SC_CARD_TYPE_CARDOS_V5_0
    THEN R \o pad[1] \o S \o pad[2]
    ELSE R \o S

\* the raw signatures of a card of some type
RawSignatures(type) ==
    { RawSignature(type, Coordinate(n, hr, 17), Coordinate(n, hs, 34), pad) :
        n \in CoordinateLens, hr \in CoordinateHeads, hs \in CoordinateHeads,
        pad \in IF type = SC_CARD_TYPE_CARDOS_V5_0 THEN Trailers
                ELSE { << << >>, << >> >> } }

\* the out buffers a caller hands in for a raw signature of rawlen bytes: one
\* that just holds a CardOS 5.0 answer, one that holds every encoding of it
SigOutLens(type, rawlen) ==
    LET n == IF type = SC_CARD_TYPE_CARDOS_V5_0 THEN (rawlen - 4) \div 2
             ELSE rawlen \div 2
    IN  { 2 * n + 4, 2 * n + 12 }

SigInputs(type) ==
    UNION { { [ NoArgs EXCEPT !.resp = raw, !.outlen = o, !.datalen = 2,
                              !.card = "ok" ] :
                o \in SigOutLens(type, Len(raw)) } :
            raw \in RawSignatures(type) }

\* compute_signature on the signature drawn
SignEc ==
    /\ op = "init"
    /\ SignatureComputed({ args.datalen }, { args.outlen }, { args.card },
                         { args.resp })

InitSig ==
    /\ card_type \in CardTypes
    /\ drv_data = "ALLOCATED"
    /\ cse_algorithm = SC_ALGORITHM_EC
    /\ pin_req = NoPinRequest
    /\ op = "init"
    /\ args \in SigInputs(card_type)
    /\ ret = SC_SUCCESS
    /\ retlen = 0
    /\ apdus = << >>
    /\ out = << >>
    /\ oob = 0
    /\ file_out = NoFile
    /\ delegated = NoDelegation

NextSig == SignEc

SpecSig == InitSig /\ [][NextSig]_vars

-----------------------------------------------------------------------------
(* Properties of the facade.                                                *)

\* the security-environment slot is Unset: no private data, or the sentinel
SlotUnset == drv_data = "NULL" \/ cse_algorithm = MINUS_1U

\* a step taken by compute_signature
SignatureStep == op' = "compute_signature" /\ pin_req' = pin_req

\* C1: whenever the slot is Unset, compute_signature returns
\* INVALID_ARGUMENTS, hands no PERFORM SECURITY OPERATION APDU to the
\* transport and leaves the slot Unset.
C1_UnsetSlotRefusesSignature ==
    [][ (SignatureStep /\ SlotUnset)
          => /\ ret' = SC_ERROR_INVALID_ARGUMENTS
             /\ apdus' = << >>
             /\ SlotUnset' ]_vars

\* compute_signature was refused on an initialised card whose slot is Unset
C1_Witness ==
    /\ op = "compute_signature"
    /\ drv_data = "ALLOCATED"
    /\ cse_algorithm = MINUS_1U
    /\ ret = SC_ERROR_INVALID_ARGUMENTS

SecurityEnvStep == op' = "set_security_env" /\ pin_req' = pin_req

\* C14: a set_security_env that does not return success leaves the slot
\* Unset whatever it held; nothing but a successful set_security_env takes
\* the slot out of Unset; and a compute_signature that gets past its state
\* check (it returns something other than the refusal, or sends an APDU)
\* started with the slot Set.  So compute_signature passes its state check
\* only if the most recent set_security_env on the card succeeded.
C14_FailedSetEnvUnsetsSlot ==
    [][ /\ (SecurityEnvStep /\ ret' # SC_SUCCESS) => SlotUnset'
        /\ (SlotUnset /\ ~SlotUnset')
              => (SecurityEnvStep /\ ret' = SC_SUCCESS)
        /\ ( /\ SignatureStep
             /\ ret' # SC_ERROR_INVALID_ARGUMENTS \/ apdus' # << >> )
              => ~SlotUnset ]_vars

\* set_security_env was refused by the card and the slot is Unset on an
\* initialised card
C14_Witness ==
    /\ op = "set_security_env"
    /\ ret = SC_ERROR_CARD_CMD_FAILED
    /\ apdus # << >>
    /\ drv_data = "ALLOCATED"
    /\ cse_algorithm = MINUS_1U

\* C15: a pin_cmd that gets past the backtrack check leaves the caller's
\* request with bit 0x80 set in its PIN reference, whatever the delegated
\* call returned; a pin_cmd on a request whose reference carries the bit is
\* refused with INCORRECT_PARAMETERS, delegates nothing, sends nothing and
\* leaves the request as it is.  So a second pin_cmd on the same request
\* object never reaches the card.
C15_RequestKeepsBacktrackBit ==
    [][ PinCmd =>
          IF BitSet80(pin_req.pin_reference)
          THEN /\ ret' = SC_ERROR_INCORRECT_PARAMETERS
               /\ ~delegated'.called
               /\ apdus' = << >>
               /\ pin_req' = pin_req
          ELSE /\ ret' \in { SC_SUCCESS, SC_ERROR_PIN_CODE_INCORRECT }
               /\ delegated'.called
               /\ pin_req'.live
               /\ pin_req'.pin_reference
                     = pin_req.pin_reference + BACKTRACK_PIN
               /\ BitSet80(pin_req'.pin_reference) ]_vars

\* the request filled in with reference 0x7F went through pin_cmd twice: it
\* now holds 0xFF, which no caller filled in, and the second call was
\* refused
C15_Witness ==
    /\ op = "pin_cmd"
    /\ ret = SC_ERROR_INCORRECT_PARAMETERS
    /\ args.pin_reference = 255
    /\ pin_req.pin_reference = 255
    /\ 255 \notin PinReferences
    /\ apdus = << >>

\* C8: with the slot Set to RSA, a compute_signature whose exchange with the
\* card succeeds returns the length of the raw response, leaves the response
\* in the out buffer as the card sent it, touches no other byte of the
\* buffer, and leaves the slot Set to RSA.
C8_RsaPassThrough ==
    [][ ( /\ SignatureStep
          /\ drv_data = "ALLOCATED"
          /\ cse_algorithm = SC_ALGORITHM_RSA
          /\ args'.outlen >= args'.datalen
          /\ args'.card = "ok" )
          => /\ ret' = SC_SUCCESS
             /\ retlen' = Len(args'.resp)
             /\ Len(out') = args'.outlen
             /\ \A i \in 1 .. Len(out') :
                  out'[i] = IF i <= Len(args'.resp) THEN args'.resp[i]
                            ELSE CallerBuffer(args'.outlen)[i]
             /\ oob' = 0
             /\ cse_algorithm' = SC_ALGORITHM_RSA ]_vars

\* an RSA signature of eight bytes that an EC post-processor would reshape
C8_Witness ==
    /\ op = "compute_signature"
    /\ cse_algorithm = SC_ALGORITHM_RSA
    /\ ret = SC_SUCCESS
    /\ retlen = 8
    /\ args.resp = << 128, 1, 9, 9, 127, 2, 7, 7 >>
    /\ out = << 128, 1, 9, 9, 127, 2, 7, 7 >>

\* C9 as stated: no call writes past the capacity of a buffer, and an EC
\* compute_signature never reports more bytes than the caller's out buffer
\* holds.
C9_NoWritePastCapacity ==
    op = "compute_signature"
       => /\ oob = 0
          /\ (ret = SC_SUCCESS => retlen <= args.outlen)

\* C10: pin_cmd refuses, without delegating, every reference that carries
\* the backtrack bit; the reference it passes to the generic ISO-7816 pin_cmd
\* carries the bit; no key reference stored in a parsed ACL carries it.
C10_BacktrackBit ==
    /\ op = "pin_cmd" =>
         IF BitSet80(args.pin_reference)
         THEN /\ ret = SC_ERROR_INCORRECT_PARAMETERS
              /\ ~delegated.called
              /\ apdus = << >>
         ELSE /\ delegated.called
              /\ BitSet80(delegated.pin_reference)
              /\ delegated.pin_reference = args.pin_reference + BACKTRACK_PIN
              /\ \A i \in 1 .. Len(apdus) : BitSet80(apdus[i].p2)
    /\ \A e \in file_out.acl :
         e[3] = SC_AC_KEY_REF_NONE \/ ~BitSet80(e[3])

\* pin_cmd delegated reference 1 as 0x81
C10_Witness ==
    /\ op = "pin_cmd"
    /\ args.pin_reference = 1
    /\ delegated.called
    /\ delegated.pin_reference = 129

\* the abstract operations the DF table maps an AM byte to
MappedDfOperations == { df_acl[i].op_byte : i \in 1 .. df_acl_n } \ { NO_OP }

\* every mapped DF operation is in the ACL, with method None and nothing else
AllMappedDfNone(acl) ==
    /\ \A o \in MappedDfOperations :
         << o, "SC_AC_NONE", SC_AC_KEY_REF_NONE >> \in acl
    /\ \A e \in acl : e[2] = "SC_AC_NONE"

\* select_file(3F 00) was asked for a file descriptor and the card answered
\* resp with status word 90 00
SelectedMf(resp) ==
    /\ op = "select_file"
    /\ args.path_type = "SC_PATH_TYPE_PATH"
    /\ args.path = << 63, 0 >>
    /\ args.want_file
    /\ args.card = "ok"
    /\ args.alloc_ok
    /\ args.resp = resp

\* 6F 81 05 AB 03 80 01 FF
ShortMfResponse == << 111, 129, 5, 171, 3, 128, 1, 255 >>

\* 6F 81 0E 82 01 38 AB 09 80 01 FF 00 00 81 00 90 00
LongMfResponse ==
    << 111, 129, 14, 130, 1, 56, 171, 9, 128, 1, 255, 0, 0, 129, 0, 144, 0 >>

\* C5 as stated: on the response 6F 81 05 AB 03 80 01 FF select_file returns
\* success with a file whose security attributes are the content of the AB
\* tag and whose ACL is None for every mapped DF operation.
C5_ShortMfResponseSelected ==
    SelectedMf(ShortMfResponse)
       => /\ ret = SC_SUCCESS
          /\ file_out.present
          /\ file_out.sec_attr = << 128, 1, 255 >>
          /\ AllMappedDfNone(file_out.acl)

\* C5: on the response 6F 81 05 AB 03 80 01 FF select_file returns an error
\* and no file; on a response whose FCI holds a DF descriptor and an AB tag
\* with the nine-byte "allow everything" ARL it returns success with a file
\* whose security attributes are the content of the AB tag and whose ACL is
\* None for every mapped DF operation.
C5_MfResponseSelected ==
    /\ SelectedMf(ShortMfResponse)
          => /\ ret # SC_SUCCESS
             /\ ~file_out.present
    /\ SelectedMf(LongMfResponse)
          => /\ ret = SC_SUCCESS
             /\ file_out.present
             /\ file_out.type = SC_FILE_TYPE_DF
             /\ file_out.sec_attr = << 128, 1, 255, 0, 0, 129, 0, 144, 0 >>
             /\ AllMappedDfNone(file_out.acl)

\* the card answered select_file(3F 00) with 6F 81 05 AB 03 80 01 FF
C5_Witness == SelectedMf(ShortMfResponse) /\ apdus # << >>

-----------------------------------------------------------------------------
(* Properties of the ARL codec.                                             *)

\* select_file handed the FCI of the response to process_fci
FciProcessed ==
    /\ op = "select_file"
    /\ apdus # << >>
    /\ args.card = "ok"
    /\ args.want_file
    /\ ~NotFci(args.resp)
    /\ args.alloc_ok

\* C16 as stated: the offset and length select_file hands to process_fci
\* lie within the bytes received, and so within the response buffer.
C16_FciWindowWithinResponse ==
    FciProcessed
       => /\ FciWindow(args.resp).off + FciWindow(args.resp).len
                <= Len(args.resp)
          /\ oob = 0

\* the AM-byte table of a file kind
AmTable(type) == IF type = SC_FILE_TYPE_DF THEN df_acl ELSE ef_acl

\* the abstract operations the table of a file kind maps an AM byte to
MappedOperations(type) ==
    { AmTable(type)[i].op_byte : i \in 1 .. Len(AmTable(type)) } \ { NO_OP }

\* size, id and ACL entries of a host file are legal
LegalFile(f) ==
    /\ f.size \in 0 .. UINT16_MAX
    /\ f.id \in 0 .. UINT16_MAX
    /\ \A o \in AclOperations :
         f.acl[o].set =>
           \/ /\ f.acl[o].method \in { "SC_AC_NONE", "SC_AC_NEVER" }
              /\ f.acl[o].key_ref = SC_AC_KEY_REF_NONE
           \/ /\ f.acl[o].method \in { "SC_AC_CHV", "SC_AC_TERM", "SC_AC_AUT" }
              /\ f.acl[o].key_ref \in 0 .. 255
              /\ ~BitSet80(f.acl[o].key_ref)

\* parse_arl ran on the ARL of the FCP built for a legal file
RoundTrip == op = "parse_created_arl" /\ LegalFile(args.file)

\* C3 as stated: the round trip succeeds and gives back every entry set on a
\* mapped operation with its operation, method and key reference, and
\* nothing but Never for the mapped operations that had no entry.
C3_RoundTripReproducesEntries ==
    RoundTrip =>
      /\ ret = SC_SUCCESS
      /\ \A o \in MappedOperations(args.file.type) :
           IF args.file.acl[o].set
           THEN << o, args.file.acl[o].method, args.file.acl[o].key_ref >>
                   \in file_out.acl
           ELSE \A e \in file_out.acl : e[1] = o => e[2] = "SC_AC_NEVER"

\* the method the decoder gives back for a method the encoder accepts
DecodedMethod(method) ==
    IF method \in { "SC_AC_NONE", "SC_AC_NEVER" } THEN method ELSE "SC_AC_CHV"

\* the ACL the round trip gives back for file f
RoundTripAcl(f) ==
    { IF f.acl[o].set
      THEN << o, DecodedMethod(f.acl[o].method), f.acl[o].key_ref >>
      ELSE << o, "SC_AC_NEVER", SC_AC_KEY_REF_NONE >> :
      o \in MappedOperations(f.type) }

\* C3: whenever construct_fcp succeeds on a legal file, parse_arl on the ARL
\* it emitted succeeds and adds exactly one entry per mapped operation: the
\* operation and key reference set on the file with the method None, Never
\* or CHV kept and the methods Term and Aut turned into CHV, and Never for a
\* mapped operation with no entry; unmapped AM entries add nothing.
C3_RoundTripUpToUserAuth ==
    RoundTrip =>
      /\ ret = SC_SUCCESS
      /\ file_out.acl = RoundTripAcl(args.file)

\* the round trip of a DF whose Update entry uses Term and whose Delete entry
\* uses CHV
C3_Witness ==
    /\ RoundTrip
    /\ ret = SC_SUCCESS
    /\ args.file.type = SC_FILE_TYPE_DF
    /\ args.file.acl["SC_AC_OP_UPDATE"] = AclEntry("SC_AC_TERM", 2)
    /\ args.file.acl["SC_AC_OP_DELETE"] = AclEntry("SC_AC_CHV", 127)
    /\ << "SC_AC_OP_UPDATE", "SC_AC_CHV", 2 >> \in file_out.acl

RECURSIVE UserAuthPinRefs(_)
\* the pin_ref bytes of the UserAuth predicates in a run of ARL bytes
UserAuthPinRefs(arl) ==
    IF Len(arl) < 8 THEN {}
    ELSE ( IF SubSeq(arl, 1, 4) = << ARL_USER_AUTH_TAG, ARL_USER_AUTH_LEN,
                                     CRT_TAG_PINREF, CRT_LEN_PINREF >>
           THEN { arl[5] } ELSE {} )
         \cup UserAuthPinRefs(Drop(arl, 1))

\* the entries of file f on mapped operations that ask for a key
KeyedEntries(f) ==
    { f.acl[o] : o \in { p \in MappedOperations(f.type) :
                            /\ f.acl[p].set
                            /\ f.acl[p].method
                                  \in { "SC_AC_CHV", "SC_AC_TERM",
                                        "SC_AC_AUT" } } }

\* the ARL content of the FCP that create_file handed to the transport
SentArl == EmittedContent(EmittedContent(apdus[1].data, FCP_TAG_START),
                          FCP_TAG_ARL)

\* C11 as stated: create_file on a DF or EF with a keyed entry whose key
\* reference has bit 0x80 set or is above 255 fails and sends nothing, and
\* every pin_ref of a UserAuth predicate sent to the card is a key
\* reference of the host file.
C11_KeyRefValidatedOnEncode ==
    ( /\ op = "create_file"
      /\ args.file.type \in { SC_FILE_TYPE_DF, SC_FILE_TYPE_WORKING_EF } )
      => /\ ( \E e \in KeyedEntries(args.file) :
                 BitSet80(e.key_ref) \/ e.key_ref > UINT8_MAX )
               => (ret # SC_SUCCESS /\ apdus = << >>)
         /\ apdus # << >>
               => UserAuthPinRefs(SentArl)
                     \subseteq { e.key_ref : e \in KeyedEntries(args.file) }

\* the bytes of the predicate for a method and a key reference
PredicateBytes(method, key_ref) ==
    IF method = "SC_AC_NONE" THEN << ARL_ALWAYS_TAG, ARL_ALWAYS_LEN >>
    ELSE IF method = "SC_AC_NEVER" THEN << ARL_NEVER_TAG, ARL_NEVER_LEN >>
    ELSE << ARL_USER_AUTH_TAG, ARL_USER_AUTH_LEN, CRT_TAG_PINREF,
            CRT_LEN_PINREF, key_ref, CRT_TAG_KUQ, CRT_LEN_KUQ,
            KUQ_USER_AUTH >>

\* the predicate of the host's entry e, Never when there is none
EntryPredicate(e) ==
    IF e.set THEN PredicateBytes(e.method, e.key_ref)
    ELSE << ARL_NEVER_TAG, ARL_NEVER_LEN >>

RECURSIVE AmScopedEntries(_, _, _)
\* one AM-scoped entry per row of table from row i on, in table order
AmScopedEntries(f, table, i) ==
    IF i > Len(table) THEN << >>
    ELSE << ARL_ACCESS_MODE_BYTE_TAG, ARL_ACCESS_MODE_BYTE_LEN,
            table[i].am_byte >>
         \o EntryPredicate(IF table[i].op_byte = NO_OP THEN NoEntry
                           ELSE f.acl[table[i].op_byte])
         \o AmScopedEntries(f, table, i + 1)

\* a command-scoped entry: the APDU header and a predicate
CommandEntry(cla, ins, p1, p2, predicate) ==
    << ARL_COMMAND_TAG, 4, cla, ins, p1, p2 >> \o predicate

\* the outer shape of a DF's ARL
DfArlShape(f) ==
    ( IF f.acl["SC_AC_OP_UPDATE"].set
      THEN CommandEntry(0, CARDOS5_PUT_DATA_INS, CARDOS5_PUT_DATA_ECD_P1,
                        CARDOS5_PUT_DATA_ECD_P2,
                        EntryPredicate(f.acl["SC_AC_OP_UPDATE"]))
      ELSE << >> )
    \o AmScopedEntries(f, df_acl, 1)
    \o CommandEntry(CARDOS5_PHASE_CONTROL_CLA, CARDOS5_PHASE_CONTROL_INS,
                    CARDOS5_PHASE_CONTROL_P1_TOGGLE,
                    CARDOS5_PHASE_CONTROL_P2_TOGGLE,
                    << ARL_ALWAYS_TAG, ARL_ALWAYS_LEN >>)
    \o CommandEntry(CARDOS5_ACCUMULATE_OBJECT_DATA_CLA,
                    CARDOS5_ACCUMULATE_OBJECT_DATA_INS,
                    CARDOS5_ACCUMULATE_OBJECT_DATA_P1_NEW, 0,
                    << ARL_ALWAYS_TAG, ARL_ALWAYS_LEN >>)
    \o CommandEntry(CARDOS5_ACCUMULATE_OBJECT_DATA_CLA,
                    CARDOS5_ACCUMULATE_OBJECT_DATA_INS,
                    CARDOS5_ACCUMULATE_OBJECT_DATA_P1_APPEND, 0,
                    << ARL_ALWAYS_TAG, ARL_ALWAYS_LEN >>)

\* what construct_df_fcp builds for the DF of the call
BuiltDfFcp == construct_df_fcp(args.file, buf_init(FCP_BUF_SIZE))

\* C12: for every DF for which construct_df_fcp succeeds the ARL is the
\* PUT DATA command entry with the host's Update predicate (present exactly
\* when the host set Update), then one AM-scoped entry per row of the DF
\* table in table order (the host's predicate when the row maps to an
\* operation the host set, Never otherwise), then the Always entries for
\* PHASE CONTROL and ACCUMULATE OBJECT DATA new and append; that ARL is the
\* one sent to the card.
C12_DfArlOuterShape ==
    ( /\ op = "create_file"
      /\ args.file.type = SC_FILE_TYPE_DF
      /\ BuiltDfFcp.r = SC_SUCCESS )
      => /\ Len(df_acl) = 11
         /\ EmittedContent(BuiltDfFcp.buf.data, FCP_TAG_ARL)
               = DfArlShape(args.file)
         /\ apdus # << >> => SentArl = DfArlShape(args.file)

\* a DF whose Update entry asks for a PIN and whose Delete entry is open was
\* built and sent
C12_Witness ==
    /\ op = "create_file"
    /\ args.file.type = SC_FILE_TYPE_DF
    /\ apdus # << >>
    /\ args.file.acl["SC_AC_OP_UPDATE"] = AclEntry("SC_AC_CHV", 1)
    /\ args.file.acl["SC_AC_OP_DELETE"]
          = AclEntry("SC_AC_NONE", SC_AC_KEY_REF_NONE)
    /\ SentArl = DfArlShape(args.file)

\* a DF with no name or a Transparent EF whose size and id fit 16 bits and
\* whose ACL entries sit on mapped operations, with one of the five methods
\* and, for CHV, Term and Aut, a key reference below 0x80
FittingFile(f) ==
    /\ \/ f.type = SC_FILE_TYPE_DF /\ f.name = << >>
       \/ /\ f.type = SC_FILE_TYPE_WORKING_EF
          /\ f.ef_structure = SC_FILE_EF_TRANSPARENT
    /\ f.size \in 0 .. UINT16_MAX
    /\ f.id \in 0 .. UINT16_MAX
    /\ \A o \in AclOperations :
         f.acl[o].set =>
           /\ o \in MappedOperations(f.type)
           /\ \/ f.acl[o].method \in { "SC_AC_NONE", "SC_AC_NEVER" }
              \/ /\ f.acl[o].method
                       \in { "SC_AC_CHV", "SC_AC_TERM", "SC_AC_AUT" }
                 /\ f.acl[o].key_ref \in 0 .. 127

\* C17 as stated: construct_fcp succeeds on every such file, so create_file
\* never returns BUFFER_TOO_SMALL for it and always sends CREATE FILE.
C17_LegalFileFitsBuffers ==
    (op = "create_file" /\ FittingFile(args.file))
       => /\ construct_fcp(args.file,
                           buf_init(SC_MAX_APDU_BUFFER_SIZE)).r = SC_SUCCESS
          /\ ret # SC_ERROR_BUFFER_TOO_SMALL
          /\ apdus # << >>

\* parse_arl ran on a DF descriptor and payload
ParsedDf(payload) ==
    /\ op = "parse_arl"
    /\ args.file.type = SC_FILE_TYPE_DF
    /\ args.payload = payload

\* parse_arl ran on a payload against a DF or EF descriptor
ArlDecoded ==
    /\ op \in { "parse_arl", "parse_created_arl" }
    /\ args.file.type \in { SC_FILE_TYPE_DF, SC_FILE_TYPE_WORKING_EF }

\* the AM bytes of the table of a file kind
AmBytes(type) == { AmTable(type)[i].am_byte : i \in 1 .. Len(AmTable(type)) }

\* p is an Always, a Never or a UserAuth predicate
IsPredicate(p) ==
    \/ p = << ARL_ALWAYS_TAG, ARL_ALWAYS_LEN >>
    \/ p = << ARL_NEVER_TAG, ARL_NEVER_LEN >>
    \/ /\ Len(p) = 8
       /\ SubSeq(p, 1, 4) = << ARL_USER_AUTH_TAG, ARL_USER_AUTH_LEN,
                               CRT_TAG_PINREF, CRT_LEN_PINREF >>
       /\ SubSeq(p, 6, 8) = << CRT_TAG_KUQ, CRT_LEN_KUQ, KUQ_USER_AUTH >>

\* e is one well-formed entry of a file kind: an AM scope of its table and a
\* predicate or, on a DF, a command scope and a predicate
IsEntry(type, e) ==
    \/ /\ Len(e) > 3
       /\ SubSeq(e, 1, 2) = << ARL_ACCESS_MODE_BYTE_TAG,
                               ARL_ACCESS_MODE_BYTE_LEN >>
       /\ e[3] \in AmBytes(type)
       /\ IsPredicate(Drop(e, 3))
    \/ /\ type = SC_FILE_TYPE_DF
       /\ Len(e) > 6
       /\ SubSeq(e, 1, 2) = << ARL_COMMAND_TAG, 4 >>
       /\ IsPredicate(Drop(e, 6))

RECURSIVE WellFormed(_, _)
\* p is a sequence of well-formed entries of a file kind
WellFormed(type, p) ==
    \/ p = << >>
    \/ \E n \in { 5, 8, 11, 14 } :
         /\ Len(p) >= n
         /\ IsEntry(type, Take(p, n))
         /\ WellFormed(type, Drop(p, n))

\* C13 as stated: parse_arl returns success only if the whole payload is a
\* sequence of well-formed entries of the file kind.
C13_SuccessOnlyIfWellFormed ==
    (ArlDecoded /\ ret = SC_SUCCESS)
       => WellFormed(args.file.type, args.payload)

\* how many bytes the DF decoder steps over for a command scope at the head
\* of p: eight, and as many more as the eighth byte says when the seventh is
\* the UserAuth tag
CommandBlock(p) ==
    8 + ( IF Len(p) >= 8 /\ p[7] = ARL_USER_AUTH_TAG THEN p[8] ELSE 0 )

RECURSIVE Classified(_, _)
\* the return code for the bytes p left to decode against a file kind
Classified(type, p) ==
    IF p = << >> THEN SC_SUCCESS
    ELSE IF Len(p) < 5 THEN SC_ERROR_WRONG_LENGTH
    ELSE IF type = SC_FILE_TYPE_DF /\ p[1] = ARL_COMMAND_TAG
    THEN IF Len(p) < CommandBlock(p) THEN SC_ERROR_WRONG_LENGTH
         ELSE Classified(type, Drop(p, CommandBlock(p)))
    ELSE IF \/ SubSeq(p, 1, 2) # << ARL_ACCESS_MODE_BYTE_TAG,
                                    ARL_ACCESS_MODE_BYTE_LEN >>
            \/ p[3] \notin AmBytes(type)
            \/ p[4] \notin { ARL_ALWAYS_TAG, ARL_NEVER_TAG,
                             ARL_USER_AUTH_TAG }
    THEN SC_ERROR_NO_CARD_SUPPORT
    ELSE IF p[4] = ARL_USER_AUTH_TAG
    THEN IF Len(p) < 11 THEN SC_ERROR_WRONG_LENGTH
         ELSE IF IsPredicate(SubSeq(p, 4, 11))
         THEN Classified(type, Drop(p, 11))
         ELSE SC_ERROR_NO_CARD_SUPPORT
    ELSE IF IsPredicate(SubSeq(p, 4, 5))
    THEN Classified(type, Drop(p, 5))
    ELSE SC_ERROR_NO_CARD_SUPPORT

\* C13: on an EF parse_arl returns success exactly when the payload is a
\* sequence of well-formed AM-scoped entries.  On a DF a nine-byte payload
\* that ends with the MF pattern is accepted whatever its first five bytes,
\* and a command scope is stepped over unread (eight bytes, and the count in
\* its eighth byte more when the seventh is the UserAuth tag).  Apart from
\* that the decoder returns WRONG_LENGTH when one to four bytes are left,
\* when a command block or a UserAuth entry is cut short, NO_CARD_SUPPORT
\* when an entry of five bytes or more has an unknown scope tag, an AM
\* length other than one, an AM byte not in the table or a predicate other
\* than Always, Never or UserAuth, and success when nothing is left.
C13_DecoderClassification ==
    ArlDecoded =>
      /\ args.file.type = SC_FILE_TYPE_WORKING_EF
            => (ret = SC_SUCCESS
                  <=> WellFormed(args.file.type, args.payload))
      /\ ret = IF args.file.type = SC_FILE_TYPE_DF /\ IsMfArl(args.payload)
               THEN SC_SUCCESS
               ELSE Classified(args.file.type, args.payload)

\* a DF payload whose command scope holds no predicate was accepted
C13_Witness ==
    /\ ParsedDf(<< ARL_COMMAND_TAG, 4, 0, ARL_ACCESS_MODE_BYTE_TAG, 1, 255,
                   0, 0 >>)
    /\ ret = SC_SUCCESS
    /\ ~WellFormed(args.file.type, args.payload)

\* C18: for every payload and file kind parse_arl comes to an end, reads
\* no payload byte at an index at or past the length that remains, and
\* never takes more bytes off the remaining length than are left, command
\* scopes with a skip count from the payload included.
C18_DecoderReadsInsidePayload ==
    op \in { "parse_arl", "parse_created_arl" }
       => parse_arl(args.file.type, {}, args.payload).safe

\* a DF payload whose command scope announces six more bytes than it has,
\* and an AM scope cut inside its UserAuth predicate, were both refused
C18_Witness ==
    /\ op = "parse_arl"
    /\ ret = SC_ERROR_WRONG_LENGTH
    /\ \/ /\ args.file.type = SC_FILE_TYPE_DF
          /\ args.payload = << ARL_COMMAND_TAG, 4, 0,
                                ARL_ACCESS_MODE_BYTE_TAG, 1, 64,
                                ARL_USER_AUTH_TAG, 6 >>
       \/ /\ args.file.type = SC_FILE_TYPE_WORKING_EF
          /\ args.payload = << ARL_ACCESS_MODE_BYTE_TAG, 1, 64,
                                ARL_USER_AUTH_TAG, 6 >>

\* { AM_TAG, 0x01, 0xFF, DUMMY_TAG, DUMMY_LEN, ALWAYS_TAG, ALWAYS_LEN }
CompactMfArl ==
    << ARL_ACCESS_MODE_BYTE_TAG, 1, 255, ARL_DUMMY_TAG, ARL_DUMMY_LEN,
       ARL_ALWAYS_TAG, ARL_ALWAYS_LEN >>

\* C4 as stated: the seven-byte payload decodes, on a DF, to None for every
\* mapped DF operation.
C4_CompactMfArlDecoded ==
    ParsedDf(CompactMfArl)
       => /\ ret = SC_SUCCESS
          /\ AllMappedDfNone(file_out.acl)

\* C4: on a DF every nine-byte payload whose last four bytes are DUMMY_TAG,
\* DUMMY_LEN, ALWAYS_TAG, ALWAYS_LEN decodes to None for every mapped DF
\* operation, and the seven-byte payload is refused with no entry added.
C4_NineByteMfArlDecoded ==
    /\ ParsedDf(CompactMfArl)
          => /\ ret # SC_SUCCESS
             /\ file_out.acl = {}
    /\ ( /\ op = "parse_arl"
         /\ args.file.type = SC_FILE_TYPE_DF
         /\ Len(args.payload) = 9
         /\ SubSeq(args.payload, 6, 9)
               = << ARL_DUMMY_TAG, ARL_DUMMY_LEN, ARL_ALWAYS_TAG,
                    ARL_ALWAYS_LEN >> )
          => /\ ret = SC_SUCCESS
             /\ AllMappedDfNone(file_out.acl)

\* the seven-byte payload was parsed against a DF descriptor
C4_Witness == ParsedDf(CompactMfArl) /\ ret = SC_ERROR_NO_CARD_SUPPORT

-----------------------------------------------------------------------------
(* Properties of the signature post-processor.                              *)

\* the length of the coordinates of the raw signature of the call
SigCoordinateLen ==
    IF card_type = SC_CARD_TYPE_CARDOS_V5_0 THEN (Len(args.resp) - 4) \div 2
    ELSE Len(args.resp) \div 2

\* the coordinates R and S of the raw signature of the call
SigR == SubSeq(args.resp, 1, SigCoordinateLen)
SigS ==
    LET skip == IF card_type = SC_CARD_TYPE_CARDOS_V5_0 THEN 2 ELSE 0
    IN  SubSeq(args.resp, SigCoordinateLen + skip + 1,
               2 * SigCoordinateLen + skip)

\* the INTEGER the claim gives for coordinate C
ClaimedInteger(C) ==
    IF C[1] >= 128 THEN << 2, Len(C) + 1, 0 >> \o C ELSE << 2, Len(C) >> \o C

\* a DER length field at the head of b: the length and the bytes the field
\* takes, in the one form DER allows for that length
DerLength(b) ==
    LET none == [ ok |-> FALSE, len |-> 0, hdr |-> 0 ]
    IN  IF Len(b) < 1 THEN none
        ELSE IF b[1] < 128 THEN [ ok |-> TRUE, len |-> b[1], hdr |-> 1 ]
        ELSE IF b[1] = 129
        THEN IF Len(b) >= 2 /\ b[2] >= 128
             THEN [ ok |-> TRUE, len |-> b[2], hdr |-> 2 ]
             ELSE none
        ELSE IF b[1] = 130
        THEN IF Len(b) >= 3 /\ b[2] > 0
             THEN [ ok |-> TRUE, len |-> b[2] * 256 + b[3], hdr |-> 3 ]
             ELSE none
        ELSE none

\* the DER TLV with tag at the head of b: its content and what follows it
DerTlv(b, tag) ==
    LET none == [ ok |-> FALSE, content |-> << >>, rest |-> << >> ]
        l == DerLength(Drop(b, 1))
    IN  IF Len(b) < 1 THEN none
        ELSE IF b[1] # tag \/ ~l.ok \/ Len(b) < 1 + l.hdr + l.len THEN none
        ELSE [ ok |-> TRUE,
               content |-> SubSeq(b, 2 + l.hdr, 1 + l.hdr + l.len),
               rest |-> Drop(b, 1 + l.hdr + l.len) ]

\* v is the content of a DER INTEGER that is not negative: the shortest
\* two's complement form of its value
DerUnsigned(v) ==
    /\ Len(v) >= 1
    /\ v[1] < 128
    /\ Len(v) >= 2 => ~(v[1] = 0 /\ v[2] < 128)

RECURSIVE Magnitude(_)
\* the bytes of an unsigned number without its leading zero bytes
Magnitude(c) ==
    IF Len(c) > 0 /\ c[1] = 0 THEN Magnitude(Tail(c)) ELSE c

\* what a DER parser makes of b as SEQUENCE { INTEGER r, INTEGER s }
DerSignature(b) ==
    LET none == [ ok |-> FALSE, r |-> << >>, s |-> << >> ]
        seq == DerTlv(b, 48)
        x == DerTlv(seq.content, 2)
        y == DerTlv(x.rest, 2)
    IN  IF ~seq.ok \/ seq.rest # << >> THEN none
        ELSE IF ~x.ok \/ ~DerUnsigned(x.content) THEN none
        ELSE IF ~y.ok \/ ~DerUnsigned(y.content) \/ y.rest # << >> THEN none
        ELSE [ ok |-> TRUE, r |-> Magnitude(x.content),
               s |-> Magnitude(y.content) ]

\* the bytes compute_signature returned: the first retlen of the out buffer,
\* as far as the buffer goes
ReturnedSignature ==
    SubSeq(out, 1, IF retlen < Len(out) THEN retlen ELSE Len(out))

\* an EC compute_signature on coordinates of 1 to 126 bytes, with an out
\* buffer that holds every encoding of them
EcSigned ==
    /\ op = "compute_signature"
    /\ cse_algorithm = SC_ALGORITHM_EC
    /\ SigCoordinateLen > 0
    /\ SigCoordinateLen < 127
    /\ args.outlen >= 2 * SigCoordinateLen + 10

\* C6 as stated: for coordinates of 1 to 126 bytes the signature returned
\* is a SEQUENCE of the two INTEGERs 02 (n+1) 00 C or 02 n C, and a DER
\* parser accepts it and gives back R and S.
C6_EcSignatureIsDer ==
    EcSigned =>
      /\ ret = SC_SUCCESS
      /\ ReturnedSignature[1] = 48
      /\ SubSeq(ReturnedSignature,
                retlen + 1 - Len(ClaimedInteger(SigR) \o ClaimedInteger(SigS)),
                retlen)
            = ClaimedInteger(SigR) \o ClaimedInteger(SigS)
      /\ DerSignature(ReturnedSignature).ok
      /\ DerSignature(ReturnedSignature).r = Magnitude(SigR)
      /\ DerSignature(ReturnedSignature).s = Magnitude(SigS)

\* the result of compute_signature on a CardOS 5.3 card that answers R || S,
\* for the out buffer of the call
ResultOnV53 ==
    SignatureResult(SC_CARD_TYPE_CARDOS_V5_3, SC_ALGORITHM_EC,
                    Received(CallerBuffer(args.outlen), SigR \o SigS),
                    Len(SigR \o SigS), args.outlen)

\* C7 as stated: on a CardOS 5.0 card that answers R || p1 || S || p2,
\* compute_signature gives the output bytes and the return value it gives
\* on a CardOS 5.3 card that answers R || S, for coordinates of every length.
C7_V50EquivalentToV53 ==
    ( /\ op = "compute_signature"
      /\ cse_algorithm = SC_ALGORITHM_EC
      /\ card_type = SC_CARD_TYPE_CARDOS_V5_0 )
      => /\ ret = ResultOnV53.r
         /\ retlen = ResultOnV53.n
         /\ ret = SC_SUCCESS => out = ResultOnV53.out

\* the equivalence restricted to coordinates of two bytes or more, where
\* neither trailer byte is read as the first byte of a coordinate
V50EquivalentToV53FromTwoBytes ==
    SigCoordinateLen >= 2 => C7_V50EquivalentToV53

=============================================================================
